---- MODULE Spec2Model ----
(***************************************************************************)
(* A model of smtk/residuals/gmpe_residuals.py: model resolution, the      *)
(* Residuals analysis (expected motions, residuals, aggregation), its      *)
(* statistics operations and the single-station analysis.                  *)
(*                                                                         *)
(* Conventions.  A Python dict is a function over its keys; an OrderedDict *)
(* of models is a sequence of [name, inst] entries.  None is the record    *)
(* [none |-> TRUE].  A raise is the field/variable err holding the name of *)
(* the exception.  Floating-point numbers are exact rationals <<n, d>>     *)
(* with d > 0 in lowest terms.  A numpy array held by a context is a       *)
(* sequence; the entries of the aggregated stores are tagged "list" or     *)
(* "ndarray", because the two differ in what the code may do with them.    *)
(***************************************************************************)
EXTENDS Integers, Sequences, FiniteSets, TLC

\* ------------------------------------------------------------------ bounds

\* The longest list of model identifiers handed to a constructor.
MaxModels == 2

\* The largest number of contexts a database yields.
MaxCtx == 2

\* The largest number_bootstraps requested.
MaxBoot == 2

\* The runs of get_site_residuals followed on one SingleStationAnalysis.
MaxSiteRuns == 2

\* The largest number of records of a context handed to
\* _get_random_effects_residuals on its own.
MaxRecords == 2

\* The largest aggregate LLH handed to the model weights on its own.
MaxLLH == 5

\* ------------------------------------------------------------ Python values

None == [none |-> TRUE]

IsNone(v) == DOMAIN v = {"none"}

\* Python's "not v" for a value that is None or a dict.
Falsy(v) == IsNone(v) \/ DOMAIN v = {}

PyList(s) == [kind |-> "list", data |-> s]

NdArray(s) == [kind |-> "ndarray", data |-> s]

\* -------------------------------------------------------------- rationals

Abs(n) == IF n < 0 THEN -n ELSE n

RECURSIVE GCD(_, _)
GCD(a, b) == IF b = 0 THEN a ELSE GCD(b, a % b)

\* The rational n/d (d # 0) in lowest terms with a positive denominator.
Rat(n, d) ==
    LET g == GCD(Abs(n), Abs(d))
        s == IF d < 0 THEN -1 ELSE 1
    IN  <<(s * n) \div g, (s * d) \div g>>

RInt(n) == <<n, 1>>

RAdd(a, b) == Rat(a[1] * b[2] + b[1] * a[2], a[2] * b[2])

RSub(a, b) == Rat(a[1] * b[2] - b[1] * a[2], a[2] * b[2])

RMul(a, b) == Rat(a[1] * b[1], a[2] * b[2])

\* a / b for b # 0.
RDiv(a, b) == Rat(a[1] * b[2], a[2] * b[1])

RLess(a, b) == a[1] * b[2] < b[1] * a[2]

RECURSIVE RSum(_)
RSum(s) == IF s = <<>> THEN RInt(0) ELSE RAdd(Head(s), RSum(Tail(s)))

\* Not-a-number, and the comparison "a < b" of floats (false on a NaN).
NaN == <<0, 0>>

IsNaN(a) == a[2] = 0

FLess(a, b) == ~IsNaN(a) /\ ~IsNaN(b) /\ RLess(a, b)

\* np.nanmean(values): the mean of the values that are numbers.
NanMean(values) ==
    LET nums == SelectSeq(values, LAMBDA v : ~IsNaN(v))
    IN  IF nums = <<>> THEN NaN ELSE RDiv(RSum(nums), RInt(Len(nums)))

\* numpy broadcasting of a length-1 array against a longer one.
Bc(a, i) == IF Len(a) = 1 THEN a[1] ELSE a[i]

BcLen(a, b) == IF Len(a) >= Len(b) THEN Len(a) ELSE Len(b)

\* ------------------------------------------------- the model catalog (external)

\* The intensity measure types of the model and the period of the spectral ones
\* (imt.from_string(imtx).period).
ImtPeriod == [imtx \in {"SA(1.0)", "SA(3.0)"} |-> IF imtx = "SA(1.0)" THEN 1 ELSE 3]

\* "SA(" in imtx
IsSA(imtx) == imtx \in DOMAIN ImtPeriod

\* The classes of ground-motion models: the standard deviation types each
\* declares, the periods of its COEFFS table, and what it predicts.
\*   Full      declares all three types, periods 1..2, one tau and one phi
\*   Hetero    declares all three types, periods 1..3, phi depends on the site
\*   GMPETable declares Total only, periods 2..3
GsimClasses ==
    [c \in {"Full", "Hetero", "GMPETable"} |->
        CASE c = "Full" ->
                [DEFINED_FOR_STANDARD_DEVIATION_TYPES |->
                     <<"Total", "Inter event", "Intra event">>,
                 sa_periods |-> {1, 2}]
          [] c = "Hetero" ->
                [DEFINED_FOR_STANDARD_DEVIATION_TYPES |->
                     <<"Total", "Inter event", "Intra event">>,
                 sa_periods |-> {1, 3}]
          [] OTHER ->
                [DEFINED_FOR_STANDARD_DEVIATION_TYPES |-> <<"Total">>,
                 sa_periods |-> {2, 3}]]

\* get_available_gsims(): the plain names of the catalog.
GSIM_LIST == {"Full", "Hetero"}

\* The strings that start with "GMPETable" and their file path.
TableRefs == {"GMPETable(gmpe_table='t1.hdf5')"}

\* A model identifier as the caller gives it: a string, or an instantiated
\* GMPE (oid 0: made by the caller).
StrId(text) == [kind |-> "str", text |-> text, cls |-> "", oid |-> 0]

GmpeId(cls) == [kind |-> "GMPE", text |-> "", cls |-> cls, oid |-> 0]

Identifiers ==
    {StrId("Full"), StrId("Bogus"), StrId("GMPETable(gmpe_table='t1.hdf5')"),
     GmpeId("Hetero")}

\* A live model instance; oid k > 0: instantiated for the k-th identifier.
Instance(cls, oid) == [cls |-> cls, oid |-> oid]

\* _get_gmpe_name: the display name derived from an instance.
_get_gmpe_name(inst) == inst.cls

\* A dictionary that ignores a key it already holds.
RECURSIVE OrderedDictFirst(_, _)
OrderedDictFirst(pairs, acc) ==
    IF pairs = <<>> THEN acc
    ELSE OrderedDictFirst(Tail(pairs),
             IF \E i \in 1..Len(acc) : acc[i].name = Head(pairs).name THEN acc
             ELSE Append(acc, Head(pairs)))

\* OrderedDict(pairs): a repeated key keeps its first position and takes the
\* last value.
RECURSIVE OrderedDictOf(_, _)
OrderedDictOf(pairs, acc) ==
    IF pairs = <<>> THEN acc
    ELSE LET p == Head(pairs)
             hit == {i \in 1..Len(acc) : acc[i].name = p.name}
         IN  OrderedDictOf(Tail(pairs),
                 IF hit = {} THEN Append(acc, p)
                 ELSE [i \in 1..Len(acc) |-> IF i \in hit THEN p ELSE acc[i]])

\* The loop of _check_gsim_list from identifier k on.
RECURSIVE CheckGsimLoop(_, _, _)
CheckGsimLoop(gsim_list, k, output_gsims) ==
    IF k > Len(gsim_list)
    THEN [err |-> "none", value |-> OrderedDictOf(output_gsims, <<>>)]
    ELSE LET gsim == gsim_list[k] IN
         IF gsim.kind = "GMPE"
         THEN CheckGsimLoop(gsim_list, k + 1,
                  Append(output_gsims,
                      [name |-> _get_gmpe_name(Instance(gsim.cls, gsim.oid)),
                       inst |-> Instance(gsim.cls, gsim.oid)]))
         ELSE IF gsim.text \in TableRefs
         THEN CheckGsimLoop(gsim_list, k + 1,
                  Append(output_gsims,
                      [name |-> _get_gmpe_name(Instance("GMPETable", k)),
                       inst |-> Instance("GMPETable", k)]))
         ELSE IF gsim.text \notin GSIM_LIST
         THEN [err |-> "ValueError", value |-> <<>>]
         ELSE CheckGsimLoop(gsim_list, k + 1,
                  Append(output_gsims,
                      [name |-> gsim.text, inst |-> Instance(gsim.text, k)]))

\* A resolver that leaves out the names it does not know.
CheckGsimSkipUnknown(gsim_list) ==
    CheckGsimLoop(SelectSeq(gsim_list,
                      LAMBDA gsim : gsim.kind = "GMPE" \/ gsim.text \in TableRefs
                                    \/ gsim.text \in GSIM_LIST),
                  1, <<>>)

_check_gsim_list(gsim_list) == CheckGsimLoop(gsim_list, 1, <<>>)

\* The keys of an OrderedDict of models, in order.
Keys(od) == [i \in 1..Len(od) |-> od[i].name]

KeySet(od) == {od[i].name : i \in 1..Len(od)}

\* od[name]
Lookup(od, name) == od[CHOOSE i \in 1..Len(od) : od[i].name = name].inst

\* ------------------------------------------------ contexts (external provider)

Some(v) == [val |-> v]

\* The recording stations: the i-th record of a context is of the i-th station.
SiteNames == <<"S1", "S2", "S3">>

\* The contexts a database can hold.  Observations are given by their natural
\* logarithm once expressed in the unit the models use (g for accelerations);
\* unit is the unit the stored value is in.
RawContext(id, rake, vs30, lnobs) ==
    [EventID |-> id,
     Ctx |-> [rake |-> rake, vs30 |-> vs30,
              sids |-> [i \in 1..Len(vs30) |-> SiteNames[i]]],
     NumSites |-> Len(vs30),
     Observations |->
        [imtx \in {"PGA", "SA(1.0)", "SA(3.0)"} |->
            [unit |-> "cm/s/s",
             ln |-> [i \in 1..Len(lnobs) |->
                        IF imtx = "PGA" THEN lnobs[i] ELSE lnobs[i] + 1]]]]

ContextPool ==
    {RawContext(1, None, <<1, 2>>, <<1, 3>>),
     RawContext(2, Some(90), <<1>>, <<2>>)}

\* The databases: every sequence of at most MaxCtx contexts of the pool.
Databases == UNION {[1..n -> ContextPool] : n \in 0..MaxCtx}

\* The lists of intensity measure types an analysis is built with.
ImtLists == {<<"PGA">>, <<"PGA", "SA(3.0)">>, <<"SA(1.0)", "SA(3.0)">>}

Range(s) == {s[i] : i \in 1..Len(s)}

\* database.get_contexts(nodal_plane_index, imts, component): the contexts of
\* the database, each with the observations of the requested IMTs.
get_contexts(database, imtlist) ==
    [k \in 1..Len(database) |->
        [database[k] EXCEPT !.Observations =
            [imtx \in Range(imtlist) |-> database[k].Observations[imtx]]]]

\* convert_accel_units(values, 'cm/s/s', 'g')
convert_accel_units(obs) == [obs EXCEPT !.unit = "g"]

\* np.log(context["Observations"][imtx])
LogObs(obs) == [i \in 1..Len(obs.ln) |-> RInt(obs.ln[i])]

\* gsim.get_mean_and_stddevs(ctx, ctx, ctx, imt, types): the mean and one array
\* per requested standard deviation type, each with one value per record.
StdDevOf(inst, res_type, ctx, i) ==
    CASE res_type = "Total" -> IF inst.cls = "Full" THEN 2
                               ELSE IF inst.cls = "Hetero" THEN 3 ELSE 1
      [] res_type = "Inter event" -> 1
      [] OTHER -> IF inst.cls = "Hetero" THEN ctx.vs30[i] ELSE 1

get_mean_and_stddevs(inst, ctx, imtx, stddev_types) ==
    LET n == Len(ctx.vs30) IN
    [mean |-> [i \in 1..n |->
                  RInt(IF inst.cls = "Full" THEN 0 ELSE 1)],
     stddev |-> [t \in 1..Len(stddev_types) |->
                  [i \in 1..n |-> RInt(StdDevOf(inst, stddev_types[t], ctx, i))]]]

\* ----------------------------------------------------------- Residuals.__init__

MinOf(S) == CHOOSE x \in S : \A y \in S : x <= y

MaxOf(S) == CHOOSE x \in S : \A y \in S : x >= y

\* The period test of __init__ (lines 334-336).
InitOutsideRange(imtx, min_per, max_per) ==
    IsSA(imtx) /\ (ImtPeriod[imtx] < min_per \/ ImtPeriod[imtx] > max_per)

\* The state of a Residuals object after __init__(gmpe_list, imts); err is the
\* exception the constructor raised, and then no object exists.
Residuals__init__(gmpe_list_arg, imts_arg) ==
    LET chk == _check_gsim_list(gmpe_list_arg)
        gl == chk.value
        cls(g) == GsimClasses[Lookup(gl, g).cls]
        lim(g) == <<MinOf(cls(g).sa_periods), MaxOf(cls(g).sa_periods)>>
        ok(g) == {imtx \in Range(imts_arg) :
                     ~InitOutsideRange(imtx, lim(g)[1], lim(g)[2])}
        tys(g) == cls(g).DEFINED_FOR_STANDARD_DEVIATION_TYPES
    IN  IF chk.err # "none"
        THEN [err |-> chk.err]
        ELSE [err |-> "none",
              gmpe_list |-> gl,
              imts |-> imts_arg,
              types |-> [g \in KeySet(gl) |-> [imtx \in ok(g) |-> tys(g)]],
              residuals |->
                 [g \in KeySet(gl) |-> [imtx \in Range(imts_arg) |->
                     IF imtx \in ok(g)
                     THEN [t \in Range(tys(g)) |-> PyList(<<>>)]
                     ELSE None]],
              modelled |->
                 [g \in KeySet(gl) |-> [imtx \in Range(imts_arg) |->
                     IF imtx \in ok(g)
                     THEN [t \in Range(tys(g)) \cup {"Mean"} |-> PyList(<<>>)]
                     ELSE None]],
              unique_indices |->
                 [g \in KeySet(gl) |-> [imtx \in ok(g) |-> <<>>]],
              gmpe_sa_limits |-> [g \in KeySet(gl) |-> lim(g)],
              contexts |-> None]

\* ------------------------------------------------- Residuals.get_expected_motions

\* A period test that also excludes the two limits.
ExpectedOutsideRangeStrict(imtx, limits) ==
    IsSA(imtx) /\ (ImtPeriod[imtx] <= limits[1] \/ ImtPeriod[imtx] >= limits[2])

\* The period test of get_expected_motions (lines 452-455).
ExpectedOutsideRange(imtx, limits) ==
    IsSA(imtx) /\ (ImtPeriod[imtx] < limits[1] \/ ImtPeriod[imtx] > limits[2])

\* The rake hack (lines 444-445): "not rake" holds for None and for 0.
\* The rake as the context holds it.
RakeKept(rake) == rake

\* if not context["Ctx"].rake: context["Ctx"].rake = 0.0
RakeHack(rake) == IF IsNone(rake) \/ rake.val = 0 THEN Some(0) ELSE rake

\* The (model, IMT) pairs in the order the loops visit them.
RECURSIVE Flatten(_)
Flatten(ss) == IF ss = <<>> THEN <<>> ELSE Head(ss) \o Flatten(Tail(ss))

Pairs(self) ==
    Flatten([a \in 1..Len(self.gmpe_list) |->
                [b \in 1..Len(self.imts) |->
                    [gmpe |-> self.gmpe_list[a].name, imtx |-> self.imts[b]]]])

\* One entry of Expected: None, or the mean and one array per declared type.
ExpectedFor(self, ctx, gmpe, imtx) ==
    IF ExpectedOutsideRange(imtx, self.gmpe_sa_limits[gmpe])
    THEN None
    ELSE LET tys == self.types[gmpe][imtx]
             out == get_mean_and_stddevs(Lookup(self.gmpe_list, gmpe), ctx, imtx, tys)
             pos(t) == CHOOSE i \in 1..Len(tys) : tys[i] = t
         IN  [k \in Range(tys) \cup {"Mean"} |->
                 IF k = "Mean" THEN out.mean ELSE out.stddev[pos(k)]]

\* The context with its Expected entry, and the model invocations made for it:
\* one per (model, IMT) inside the model's period range.
get_expected_motions(self, context) ==
    LET ctx == [context.Ctx EXCEPT !.rake = RakeHack(context.Ctx.rake)]
        c1 == [context EXCEPT !.Ctx = ctx]
        expected == [g \in KeySet(self.gmpe_list) |->
                        [imtx \in Range(self.imts) |-> ExpectedFor(self, ctx, g, imtx)]]
        called == SelectSeq(Pairs(self),
                      LAMBDA p : ~ExpectedOutsideRange(p.imtx,
                                       self.gmpe_sa_limits[p.gmpe]))
    IN  [context |-> [x \in (DOMAIN c1) \cup {"Expected"} |->
                         IF x = "Expected" THEN expected ELSE c1[x]],
         invoked |-> [i \in 1..Len(called) |->
                         [EventID |-> context.EventID, gmpe |-> called[i].gmpe,
                          imtx |-> called[i].imtx, rake |-> ctx.rake]]]

\* --------------------------------------------------- Residuals.calculate_residuals

\* A decomposition whose intra-event residual is not corrected for the
\* inter-event residual.
RandomEffectsUncorrected(obs, mean, inter, intra, normalise) ==
    LET nvals == RInt(Len(mean))
        total == RSum([i \in 1..Len(obs) |-> RSub(obs[i], Bc(mean, i))])
        inter_res ==
            [i \in 1..BcLen(inter, intra) |->
                RDiv(RMul(RMul(Bc(inter, i), Bc(inter, i)), total),
                     RAdd(RMul(nvals, RMul(Bc(inter, i), Bc(inter, i))),
                          RMul(Bc(intra, i), Bc(intra, i))))]
        intra_res == [i \in 1..Len(obs) |-> RSub(obs[i], Bc(mean, i))]
    IN  IF normalise
        THEN [inter |-> [i \in 1..Len(inter_res) |->
                            RDiv(inter_res[i], Bc(inter, i))],
              intra |-> [i \in 1..Len(intra_res) |->
                            RDiv(intra_res[i], Bc(intra, i))]]
        ELSE [inter |-> inter_res, intra |-> intra_res]

\* _get_random_effects_residuals(obs, mean, inter, intra, normalise): the
\* inter-event and intra-event residuals (Abrahamson & Youngs 1992, Eq. 10).
_get_random_effects_residuals(obs, mean, inter, intra, normalise) ==
    LET nvals == RInt(Len(mean))
        total == RSum([i \in 1..Len(obs) |-> RSub(obs[i], Bc(mean, i))])
        sq(x) == RMul(x, x)
        inter_res ==
            [i \in 1..BcLen(inter, intra) |->
                RDiv(RMul(sq(Bc(inter, i)), total),
                     RAdd(RMul(nvals, sq(Bc(inter, i))), sq(Bc(intra, i))))]
        intra_res ==
            [i \in 1..Len(obs) |->
                RSub(obs[i], RAdd(Bc(mean, i), Bc(inter_res, i)))]
    IN  IF normalise
        THEN [inter |-> [i \in 1..Len(inter_res) |->
                            RDiv(inter_res[i], Bc(inter, i))],
              intra |-> [i \in 1..Len(intra_res) |->
                            RDiv(intra_res[i], Bc(intra, i))]]
        ELSE [inter |-> inter_res, intra |-> intra_res]

\* One entry of Residual (lines 480-496): None when Expected is, else the total
\* residual and, for a model whose store has "Inter event", the decomposition.
\* err is the KeyError of a missing standard deviation.
ResidualFor(self, context, gmpe, imtx, normalise) ==
    LET obs == LogObs(context.Observations[imtx])
        exp == context.Expected[gmpe][imtx]
    IN  IF Falsy(exp) THEN [err |-> "none", value |-> None]
        ELSE IF "Total" \notin DOMAIN exp THEN [err |-> "KeyError", value |-> None]
        ELSE LET tot == [i \in 1..Len(obs) |->
                            RDiv(RSub(obs[i], Bc(exp["Mean"], i)), Bc(exp["Total"], i))]
             IN  IF "Inter event" \in DOMAIN self.residuals[gmpe][imtx]
                 THEN IF {"Inter event", "Intra event"} \subseteq DOMAIN exp
                      THEN LET re == _get_random_effects_residuals(obs, exp["Mean"],
                                         exp["Inter event"], exp["Intra event"],
                                         normalise)
                           IN  [err |-> "none",
                                value |-> [t \in {"Total", "Inter event", "Intra event"} |->
                                              IF t = "Total" THEN tot
                                              ELSE IF t = "Inter event" THEN re.inter
                                              ELSE re.intra]]
                      ELSE [err |-> "KeyError", value |-> None]
                 ELSE [err |-> "none", value |-> [t \in {"Total"} |-> tot]]

calculate_residuals(self, context, normalise) ==
    LET one(g, imtx) == ResidualFor(self, context, g, imtx, normalise)
        bad == \E g \in KeySet(self.gmpe_list), imtx \in Range(self.imts) :
                   one(g, imtx).err # "none"
        residual == [g \in KeySet(self.gmpe_list) |->
                        [imtx \in Range(self.imts) |-> one(g, imtx).value]]
    IN  [err |-> IF bad THEN "KeyError" ELSE "none",
         context |-> [x \in (DOMAIN context) \cup {"Residual"} |->
                         IF x = "Residual" THEN residual ELSE context[x]]]

\* ------------------------------------------------------- Residuals.get_residuals

\* A test that takes the inter-event residual for single only when the
\* context has one record.
SingleInterEventOneRecord(inter_ev) == Len(inter_ev) = 1

\* np.all(np.fabs(inter_ev - inter_ev[0]) < 1.0E-12).  The values of the model
\* are rationals with small denominators: two of them that differ, differ by
\* more than the tolerance.
SingleInterEvent(inter_ev) == \A i \in 1..Len(inter_ev) : inter_ev[i] = inter_ev[1]

\* The work of lines 396-423 for one (model, IMT) of one context: the residual
\* types of the store in order, then the mean.
StoreKeys(self, gmpe, imtx) == self.types[gmpe][imtx] \o <<"Mean">>

\* Lines 397-423 for one residual type (or the mean) on the stores st.
AggregateType(st, context, gmpe, imtx, res_type) ==
    LET res == context.Residual[gmpe][imtx]
        exp == context.Expected[gmpe][imtx]
        rs == st.residuals[gmpe][imtx]
        md == st.modelled[gmpe][imtx]
    IN  IF st.err # "none" THEN st
        ELSE IF res_type = "Mean"
        THEN IF md["Mean"].kind # "list" THEN [st EXCEPT !.err = "AttributeError"]
             ELSE [st EXCEPT !.modelled[gmpe][imtx]["Mean"] =
                                  PyList(md["Mean"].data \o exp["Mean"])]
        ELSE IF res_type \notin DOMAIN res THEN [st EXCEPT !.err = "KeyError"]
        ELSE IF rs[res_type].kind # "list" THEN [st EXCEPT !.err = "AttributeError"]
        ELSE LET single == res_type = "Inter event" /\ SingleInterEvent(res[res_type])
                 s1 == [st EXCEPT !.residuals[gmpe][imtx][res_type] =
                           PyList(IF single THEN Append(rs[res_type].data, res[res_type][1])
                                  ELSE rs[res_type].data \o res[res_type])]
                 s2 == IF res_type # "Inter event" THEN s1
                       ELSE [s1 EXCEPT !.unique_indices[gmpe][imtx] =
                               Append(st.unique_indices[gmpe][imtx],
                                   IF single THEN <<0>>
                                   ELSE [i \in 1..Len(res[res_type]) |-> i - 1])]
             IN  IF md[res_type].kind # "list" THEN [s2 EXCEPT !.err = "AttributeError"]
                 ELSE [s2 EXCEPT !.modelled[gmpe][imtx][res_type] =
                                      PyList(md[res_type].data \o exp[res_type])]

RECURSIVE AggregateTypes(_, _, _, _, _)
AggregateTypes(st, context, gmpe, imtx, keys) ==
    IF keys = <<>> THEN st
    ELSE AggregateTypes(AggregateType(st, context, gmpe, imtx, Head(keys)),
                        context, gmpe, imtx, Tail(keys))

\* Lines 392-423 for one context: every (model, IMT) with a residual entry.
RECURSIVE AggregateContext(_, _, _, _)
AggregateContext(self, st, context, pairs) ==
    IF pairs = <<>> \/ st.err # "none" THEN st
    ELSE LET p == Head(pairs) IN
         AggregateContext(self,
             IF Falsy(context.Residual[p.gmpe][p.imtx]) THEN st
             ELSE AggregateTypes(st, context, p.gmpe, p.imtx,
                                 StoreKeys(self, p.gmpe, p.imtx)),
             context, Tail(pairs))

\* Lines 384-387: the acceleration IMTs are converted to g.
ConvertUnits(self, context) ==
    [context EXCEPT !.Observations =
        [imtx \in DOMAIN context.Observations |->
            IF imtx = "PGA" \/ IsSA(imtx)
            THEN convert_accel_units(context.Observations[imtx])
            ELSE context.Observations[imtx]]]

\* The loop of lines 380-425 over the contexts still to process.  st holds the
\* stores, the contexts kept so far, the model invocations and the exception.
\* A retention that keeps the latest context only.
KeepLatestContext(st, context) ==
    IF st.err # "none" THEN st ELSE [st EXCEPT !.contexts = <<context>>]

\* Line 425: the context is kept once its residuals are aggregated.
KeepContext(st, context) ==
    IF st.err # "none" THEN st
    ELSE [st EXCEPT !.contexts = Append(st.contexts, context)]

\* Lines 392-425 on cr, the outcome of calculate_residuals for the context.
AggregateAndKeep(self, st, cr) ==
    IF cr.err # "none" THEN [st EXCEPT !.err = cr.err]
    ELSE KeepContext(AggregateContext(self, st, cr.context, Pairs(self)),
                     cr.context)

\* Lines 388-425 on em, the outcome of get_expected_motions for the context.
ResidualsOfContext(self, st, em, normalise) ==
    AggregateAndKeep(self, [st EXCEPT !.invoked = st.invoked \o em.invoked],
                     calculate_residuals(self, em.context, normalise))

RECURSIVE ContextLoop(_, _, _, _)
ContextLoop(self, st, todo, normalise) ==
    IF todo = <<>> \/ st.err # "none" THEN st
    ELSE ContextLoop(self,
             ResidualsOfContext(self, st,
                 get_expected_motions(self, ConvertUnits(self, Head(todo))),
                 normalise),
             Tail(todo), normalise)

\* Lines 427-437: every list of an applicable (model, IMT) becomes an array.
ToArrays(store, residuals_store) ==
    [g \in DOMAIN store |-> [imtx \in DOMAIN store[g] |->
        IF Falsy(residuals_store[g][imtx]) THEN store[g][imtx]
        ELSE [t \in DOMAIN store[g][imtx] |-> NdArray(store[g][imtx][t].data)]]]

\* Lines 427-437 on st, the stores the loop over the contexts leaves: the
\* object afterwards.  An exception in the loop leaves the lists as they are.
AfterContextLoop(self, st) ==
    [self |-> [self EXCEPT
                  !.residuals = IF st.err = "none"
                                THEN ToArrays(st.residuals, st.residuals)
                                ELSE st.residuals,
                  !.modelled = IF st.err = "none"
                               THEN ToArrays(st.modelled, st.residuals)
                               ELSE st.modelled,
                  !.unique_indices = st.unique_indices,
                  !.contexts = [list |-> st.contexts]],
     err |-> st.err,
     invoked |-> st.invoked]

\* get_residuals(database, normalise=normalise) on the object self: the object
\* afterwards, the exception raised (err) and the model invocations made.
get_residuals(self, database, normalise) ==
    AfterContextLoop(self,
        ContextLoop(self,
            [residuals |-> self.residuals, modelled |-> self.modelled,
             unique_indices |-> self.unique_indices, contexts |-> <<>>,
             invoked |-> <<>>, err |-> "none"],
            get_contexts(database, self.imts), normalise))

\* ============================================================== statistics

\* get_residual_statistics_for(gmpe, imtx): mean and standard deviation of each
\* residual type.  The standard deviation is the square root of the variance
\* given here.
get_residual_statistics_for(self, gmpe, imtx) ==
    [t \in Range(self.types[gmpe][imtx]) |->
        LET vals == self.residuals[gmpe][imtx][t].data
            mu == NanMean(vals)
            dev == [i \in 1..Len(vals) |->
                       IF IsNaN(vals[i]) THEN NaN
                       ELSE RMul(RSub(vals[i], mu), RSub(vals[i], mu))]
        IN  [Mean |-> mu, StdDevSquared |-> NanMean(dev)]]

\* The (model, IMT) pairs a statistics loop keeps: "not residuals[gmpe][imtx]"
\* skips the others.
Kept(self, gmpe) == {imtx \in Range(self.imts) : ~Falsy(self.residuals[gmpe][imtx])}

get_residual_statistics(self) ==
    [g \in KeySet(self.gmpe_list) |->
        [imtx \in Kept(self, g) |-> get_residual_statistics_for(self, g, imtx)]]

\* _get_likelihood_values_for: LH = 1 - erf(|z| / sqrt(2)) of every residual,
\* given by |z|, and the array whose 50th percentile is the median.
_get_likelihood_values_for(self, gmpe, imtx) ==
    [t \in Range(self.types[gmpe][imtx]) |->
        LET vals == self.residuals[gmpe][imtx][t].data
            zvals == [i \in 1..Len(vals) |-> <<Abs(vals[i][1]), vals[i][2]>>]
        IN  [l_h |-> zvals, median_lh |-> [nanpercentile50 |-> zvals]]]

get_likelihood_values(self) ==
    LET statistics == get_residual_statistics(self)
        values(g, imtx) == _get_likelihood_values_for(self, g, imtx)
    IN  [lh_values |->
            [g \in KeySet(self.gmpe_list) |-> [imtx \in Kept(self, g) |->
                [t \in DOMAIN values(g, imtx) |-> values(g, imtx)[t].l_h]]],
         statistics |->
            [g \in KeySet(self.gmpe_list) |-> [imtx \in Kept(self, g) |->
                [t \in DOMAIN values(g, imtx) |->
                    [Mean |-> statistics[g][imtx][t].Mean,
                     StdDevSquared |-> statistics[g][imtx][t].StdDevSquared,
                     MedianLH |-> values(g, imtx)[t].median_lh]]]]]

\* The LLH of a set of total residuals z: -(1/n) sum(log2(norm.pdf(z))), which
\* is log2(2 pi)/2 + msq / (2 ln 2) for msq the mean of z^2.  It is given by msq.
LLHOf(zs) == [msq |-> RDiv(RSum([i \in 1..Len(zs) |-> RMul(zs[i], zs[i])]),
                           RInt(Len(zs)))]

\* get_loglikelihood_values(imts), lines 701-723: the requested IMTs a model is
\* evaluated on, its total residuals over them, and the exception raised.
LLHImts(self, gmpe, req) ==
    SelectSeq(req, LAMBDA imtx : imtx \in Range(self.imts)
                                 /\ ~Falsy(self.residuals[gmpe][imtx]))

LLHRaises(self, gmpe, req) ==
    \/ \E imtx \in Range(LLHImts(self, gmpe, req)) :
           Len(self.residuals[gmpe][imtx]["Total"].data) = 0
    \/ Len(LLHImts(self, gmpe, req)) = 0

get_loglikelihood_values(self, req) ==
    LET log_residuals(g) ==
            Flatten([k \in 1..Len(LLHImts(self, g, req)) |->
                        self.residuals[g][LLHImts(self, g, req)[k]]["Total"].data])
    IN  IF \E g \in KeySet(self.gmpe_list) : LLHRaises(self, g, req)
        THEN [err |-> "ZeroDivisionError", value |-> None]
        ELSE [err |-> "none",
              value |->
                [llh |-> [g \in KeySet(self.gmpe_list) |->
                            [imtx \in Range(req) \cup {"All"} |->
                                IF imtx = "All" THEN LLHOf(log_residuals(g))
                                ELSE IF imtx \in Range(LLHImts(self, g, req))
                                THEN LLHOf(self.residuals[g][imtx]["Total"].data)
                                ELSE None]],
                 model_weights |-> [g \in KeySet(self.gmpe_list) |->
                            [pow2_minus_llh |-> LLHOf(log_residuals(g)),
                             over |-> Keys(self.gmpe_list)]]]]

\* 2.0 ** -x for an integer x.
RECURSIVE Pow2(_)
Pow2(e) == IF e = 0 THEN 1 ELSE 2 * Pow2(e - 1)

\* 2.0 ** x: the sign of the exponent is lost.
Exp2Pos(x) == IF x >= 0 THEN RInt(Pow2(x)) ELSE Rat(1, Pow2(-x))

Exp2Neg(x) == IF x >= 0 THEN Rat(1, Pow2(x)) ELSE RInt(Pow2(-x))

\* Lines 725-730 on aggregate LLH values that are integers: the weight of
\* each model of the list gmpes.
model_weights(gmpes, llh) ==
    LET weights == [iloc \in 1..Len(gmpes) |-> Exp2Neg(llh[gmpes[iloc]]["All"])]
        total == RSum(weights)
    IN  [g \in Range(gmpes) |->
            RDiv(weights[CHOOSE iloc \in 1..Len(gmpes) : gmpes[iloc] = g], total)]

\* sum([ctxt["Num. Sites"] for ctxt in contexts])
RECURSIVE NumSitesSum(_)
NumSitesSum(ctxs) ==
    IF ctxs = <<>> THEN 0 ELSE Head(ctxs).NumSites + NumSitesSum(Tail(ctxs))

\* ctxt["Expected"][gmpe][imtx] with neither "Intra event" nor "Inter event"
\* (line 235): only the total sigma exists.
OnlyTotal(expected) ==
    ~("Intra event" \in DOMAIN expected) /\ ~("Inter event" \in DOMAIN expected)

\* A write of the values to the rows i+1..i+n_r of the first column.
WriteFirstColumn(z_g_mat, i, n_r, j, inter_ev) ==
    [r \in 1..Len(z_g_mat) |-> [c \in 1..Len(z_g_mat[r]) |->
        IF c = 1 /\ r \in (i + 1)..(i + n_r)
        THEN (IF Len(inter_ev) = 1 THEN inter_ev[1] ELSE inter_ev[r - i])
        ELSE z_g_mat[r][c]]]

\* z_g_mat[i:(i + n_r), j] = inter_ev[0] or inter_ev (lines 249-256), with j
\* counted from 1: a single value fills the rows, a vector is laid on them.
WriteColumn(z_g_mat, i, n_r, j, inter_ev) ==
    [r \in 1..Len(z_g_mat) |-> [c \in 1..Len(z_g_mat[r]) |->
        IF c = j /\ r \in (i + 1)..(i + n_r)
        THEN (IF Len(inter_ev) = 1 THEN inter_ev[1] ELSE inter_ev[r - i])
        ELSE z_g_mat[r][c]]]

\* r_mat[i:(i + n_r)] = values, for r_mat and expected_mat alike.
WriteRows(vec, i, n_r, values) ==
    [r \in 1..Len(vec) |-> IF r \in (i + 1)..(i + n_r) THEN values[r - i] ELSE vec[r]]

\* One pass of the loop of lines 234-257 on the context j (counted from 1)
\* with the entry expected = ctxt["Expected"][gmpe][imtx].
BuildStep(st, j, expected) ==
    IF OnlyTotal(expected)
    THEN [i |-> st.i + Len(expected["Total"]),
          r_mat |-> WriteRows(st.r_mat, st.i, Len(expected["Total"]), expected["Total"]),
          expected_mat |-> WriteRows(st.expected_mat, st.i, Len(expected["Total"]),
                                     expected["Mean"]),
          z_g_mat |-> st.z_g_mat]
    ELSE [i |-> st.i + Len(expected["Intra event"]),
          r_mat |-> WriteRows(st.r_mat, st.i, Len(expected["Intra event"]),
                              expected["Intra event"]),
          expected_mat |-> WriteRows(st.expected_mat, st.i,
                                     Len(expected["Intra event"]), expected["Mean"]),
          z_g_mat |-> WriteColumn(st.z_g_mat, st.i, Len(expected["Intra event"]), j,
                                  expected["Inter event"])]

RECURSIVE BuildLoop(_, _, _, _, _)
BuildLoop(ctxs, gmpe, imtx, j, st) ==
    IF j > Len(ctxs) THEN st
    ELSE BuildLoop(ctxs, gmpe, imtx, j + 1,
                   BuildStep(st, j, ctxs[j].Expected[gmpe][imtx]))

\* np.diag(r_mat ** 2.) + z_g_mat.dot(z_g_mat.T)
VMat(r_mat, z_g_mat) ==
    [r \in 1..Len(r_mat) |-> [q \in 1..Len(r_mat) |->
        RAdd(IF r = q THEN RMul(r_mat[r], r_mat[r]) ELSE RInt(0),
             RSum([c \in 1..Len(z_g_mat[r]) |-> RMul(z_g_mat[r][c], z_g_mat[q][c])]))]]

\* _build_matrices(contexts, gmpe, imtx): the log-observations, V, the
\* expected means, the number of events and of records, and with them the
\* vector of intra-event sigmas and the matrix Z the function builds V from.
\* An entry Expected[gmpe][imtx] that is None raises TypeError at line 235.
_build_matrices(ctxs, gmpe, imtx) ==
    LET neqs == Len(ctxs)
        nrecs == NumSitesSum(ctxs)
        zeros == [r \in 1..nrecs |-> RInt(0)]
        st == BuildLoop(ctxs, gmpe, imtx, 1,
                  [i |-> 0, r_mat |-> zeros, expected_mat |-> zeros,
                   z_g_mat |-> [r \in 1..nrecs |-> [c \in 1..neqs |-> RInt(0)]]])
    IN  IF \E k \in 1..neqs : IsNone(ctxs[k].Expected[gmpe][imtx])
        THEN [err |-> "TypeError", value |-> None]
        ELSE [err |-> "none",
              value |-> [observations |->
                             Flatten([k \in 1..neqs |-> LogObs(ctxs[k].Observations[imtx])]),
                         v_mat |-> VMat(st.r_mat, st.z_g_mat),
                         expected_mat |-> st.expected_mat,
                         neqs |-> neqs, nrecs |-> nrecs,
                         r_mat |-> st.r_mat, z_g_mat |-> st.z_g_mat]]

\* The multivariate log-likelihood of one event for a model class and an IMT:
\* (n ln(2 pi) + ln|V| + b' V^-1 b) / 2 on the V, b of _build_matrices, to
\* three decimals.  V is block diagonal, so a list of events has the sum.
EventLL(id, cls, imtx) ==
    LET pga == imtx = "PGA" IN
    CASE cls = "Full" ->
            IF id = 1 THEN (IF pga THEN 4721 ELSE 6387)
            ELSE (IF pga THEN 2266 ELSE 3516)
      [] cls = "Hetero" ->
            IF id = 1 THEN (IF pga THEN 3381 ELSE 3881)
            ELSE (IF pga THEN 1516 ELSE 2266)
      [] OTHER ->
            IF id = 1 THEN (IF pga THEN 3838 ELSE 6838)
            ELSE (IF pga THEN 1419 ELSE 2919)

\* get_multivariate_ll(contexts, gmpe, imt).  _build_matrices reads
\* Expected[gmpe][imtx] of every context: a None entry is a TypeError.
get_multivariate_ll(self, ctxs, gmpe, imtx) ==
    IF \E k \in 1..Len(ctxs) : IsNone(ctxs[k].Expected[gmpe][imtx])
    THEN [err |-> "TypeError", value |-> NaN]
    ELSE [err |-> "none",
          value |-> RSum([k \in 1..Len(ctxs) |->
                       Rat(EventLL(ctxs[k].EventID,
                                   Lookup(self.gmpe_list, gmpe).cls, imtx), 1000)])]

\* A total that adds every value: a not-a-number value makes the total
\* not-a-number.
SumImtsWithNaN(values) ==
    IF \E k \in 1..Len(values) : IsNaN(values[k]) THEN NaN ELSE RSum(values)

\* total_llh of lines 761-765 on the values of the IMTs in order: a value
\* that is not-a-number is passed over.
SumImts(values) == RSum(SelectSeq(values, LAMBDA v : ~IsNaN(v)))

\* Lines 749-767 for the models named gmpes, with ll[g][imtx] the outcome of
\* the call get_multivariate_ll(self.contexts, g, imtx) where it is made:
\* 0.0 for an IMT whose store is None, the value of the call otherwise, and
\* the total when sum_imts.
MultivariateLLHValues(gmpes, imts_, residuals_, ll, sum_imts) ==
    LET one(g, imtx) ==
            IF IsNone(residuals_[g][imtx]) THEN [err |-> "none", value |-> RInt(0)]
            ELSE ll[g][imtx]
    IN  IF \E g \in gmpes, imtx \in Range(imts_) : one(g, imtx).err # "none"
        THEN [err |-> "TypeError", value |-> None]
        ELSE [err |-> "none",
              value |-> [g \in gmpes |->
                           IF sum_imts
                           THEN [total |-> SumImts([k \in 1..Len(imts_) |->
                                                       one(g, imts_[k]).value])]
                           ELSE [imtx \in Range(imts_) |-> one(g, imtx).value]]]

\* get_multivariate_loglikelihood_values(sum_imts)
get_multivariate_loglikelihood_values(self, sum_imts) ==
    MultivariateLLHValues(KeySet(self.gmpe_list), self.imts, self.residuals,
        [g \in KeySet(self.gmpe_list) |-> [imtx \in Range(self.imts) |->
            IF IsNone(self.residuals[g][imtx]) THEN None
            ELSE get_multivariate_ll(self, self.contexts.list, g, imtx)]],
        sum_imts)

\* MultivariateLLH.get_likelihood_values(sum_imts) of the deprecated subclass:
\* the call of get_multivariate_loglikelihood_values is a statement, and the
\* function ends without a return.
MultivariateLLH_get_likelihood_values(self, sum_imts) ==
    [err |-> get_multivariate_loglikelihood_values(self, sum_imts).err,
     value |-> None]

\* ---------------------------------------------------------------- bootstrap

\* A count of the draws in which the first block is below the second only.
DistinctCountOneSided(data_i, data_j) ==
    Cardinality({c \in UNION {{<<k, b>> : b \in 1..Len(data_i[k])} :
                                 k \in 1..Len(data_i)} :
                    FLess(data_i[c[1]][c[2]], data_j[c[1]][c[2]])})

\* np.sum(data_i < data_j) - np.sum(data_j < data_i) over two blocks of the
\* output cube, each a sequence (IMTs) of sequences (draws).
DistinctCount(data_i, data_j) ==
    LET cells == UNION {{<<k, b>> : b \in 1..Len(data_i[k])} : k \in 1..Len(data_i)}
    IN  Cardinality({c \in cells : FLess(data_i[c[1]][c[2]], data_j[c[1]][c[2]])})
        - Cardinality({c \in cells : FLess(data_j[c[1]][c[2]], data_i[c[1]][c[2]])})

\* A distinctiveness that, with sum_imts, compares in each draw the LLH of
\* the two models summed across the IMTs.
DistinctivenessOfSummedLLH(ngmpes, nimts, outputs, number_bootstraps, sum_imts) ==
    LET summed(i) == <<[b \in 1..number_bootstraps |->
                          SumImtsWithNaN([k \in 1..nimts |-> outputs[i][k][b]])]>>
    IN  IF /\ ngmpes >= 2
           /\ IF sum_imts THEN number_bootstraps * nimts = 0
              ELSE nimts >= 1 /\ number_bootstraps = 0
        THEN [err |-> "ZeroDivisionError", value |-> None]
        ELSE [err |-> "none",
              value |->
                IF sum_imts
                THEN NdArray([i \in 1..ngmpes |-> [j \in 1..ngmpes |->
                        IF i = j THEN RInt(0)
                        ELSE Rat(DistinctCount(summed(i), summed(j)),
                                 number_bootstraps)]])
                ELSE NdArray([i \in 1..ngmpes |-> [j \in 1..ngmpes |-> [k \in 1..nimts |->
                        IF i = j THEN RInt(0)
                        ELSE Rat(DistinctCount(<<outputs[i][k]>>, <<outputs[j][k]>>),
                                 number_bootstraps)]]])]

\* get_distinctiveness(outputs, number_bootstraps, sum_imts) of an object with
\* ngmpes models and nimts IMTs; outputs[i][k][b] is model i, IMT k, draw b.
get_distinctiveness(ngmpes, nimts, outputs, number_bootstraps, sum_imts) ==
    IF /\ ngmpes >= 2
       /\ IF sum_imts THEN number_bootstraps * nimts = 0
          ELSE nimts >= 1 /\ number_bootstraps = 0
    THEN [err |-> "ZeroDivisionError", value |-> None]
    ELSE [err |-> "none",
          value |->
            IF sum_imts
            THEN NdArray([i \in 1..ngmpes |-> [j \in 1..ngmpes |->
                    IF i = j THEN RInt(0)
                    ELSE Rat(DistinctCount(outputs[i], outputs[j]),
                             number_bootstraps * nimts)]])
            ELSE NdArray([i \in 1..ngmpes |-> [j \in 1..ngmpes |-> [k \in 1..nimts |->
                    IF i = j THEN RInt(0)
                    ELSE Rat(DistinctCount(<<outputs[i][k]>>, <<outputs[j][k]>>),
                             number_bootstraps)]]])]

\* numpy's global random generator: a state, and the step that yields the
\* next state.  randint(0, n) of a state is in 0..n-1.
RngStates == 0..7

RngNext(state) == (5 * state + 3) % 8

RngDraw(state, n) == (state \div 2) % n

\* np.random.randint(0, neqs, neqs) from generator state rng: the neqs indices
\* drawn and the state afterwards.
RECURSIVE randint(_, _, _)
randint(rng, neqs, size) ==
    IF size = 0 THEN [values |-> <<>>, rng |-> rng]
    ELSE LET rest == randint(RngNext(rng), neqs, size - 1)
         IN  [values |-> <<RngDraw(RngNext(rng), neqs)>> \o rest.values,
              rng |-> rest.rng]

\* A resampling that takes the contexts at indices shifted by the generator
\* state, and not at the indices it reports.
BootstrapLlhShifted(self, ij, rng) ==
    LET ctxs == self.contexts.list
        neqs == Len(ctxs)
    IN  IF neqs = 0
        THEN [err |-> "ValueError", outputs |-> <<>>, isamp |-> <<>>, rng |-> rng]
        ELSE LET draw == randint(rng, neqs, neqs)
                 new_contexts == [k \in 1..neqs |->
                     ctxs[((draw.values[k] + (rng \div 4)) % neqs) + 1]]
                 one(a, b) == get_multivariate_ll(self, new_contexts,
                                  self.gmpe_list[a].name, self.imts[b])
                 bad == \E a \in 1..Len(self.gmpe_list), b \in 1..Len(self.imts) :
                            one(a, b).err # "none"
             IN  [err |-> IF bad THEN "TypeError" ELSE "none",
                  outputs |-> [a \in 1..Len(self.gmpe_list) |->
                                 [b \in 1..Len(self.imts) |-> one(a, b).value]],
                  isamp |-> draw.values,
                  rng |-> draw.rng]

\* bootstrap_llh(ij, contexts, gmpes, imts): the (models x IMTs) slice of one
\* resampling of the contexts, the indices drawn, and the exception raised.
bootstrap_llh(self, ij, rng) ==
    LET ctxs == self.contexts.list
        neqs == Len(ctxs)
    IN  IF neqs = 0
        THEN [err |-> "ValueError", outputs |-> <<>>, isamp |-> <<>>, rng |-> rng]
        ELSE LET draw == randint(rng, neqs, neqs)
                 new_contexts == [k \in 1..neqs |-> ctxs[draw.values[k] + 1]]
                 one(a, b) == get_multivariate_ll(self, new_contexts,
                                  self.gmpe_list[a].name, self.imts[b])
                 bad == \E a \in 1..Len(self.gmpe_list), b \in 1..Len(self.imts) :
                            one(a, b).err # "none"
             IN  [err |-> IF bad THEN "TypeError" ELSE "none",
                  outputs |-> [a \in 1..Len(self.gmpe_list) |->
                                 [b \in 1..Len(self.imts) |-> one(a, b).value]],
                  isamp |-> draw.values,
                  rng |-> draw.rng]

\* np.zeros([len(self.gmpe_list), len(self.imts), number_bootstraps])
ZeroCube(ngmpes, nimts, number_bootstraps) ==
    [a \in 1..ngmpes |-> [b \in 1..nimts |->
        [jj \in 1..number_bootstraps |-> RInt(0)]]]

\* A write of the slices from iteration j on.
WriteSlicesFrom(outputs, j, slice) ==
    [a \in 1..Len(outputs) |-> [b \in 1..Len(outputs[a]) |->
        [jj \in 1..Len(outputs[a][b]) |->
            IF jj >= j + 1 THEN slice[a][b] ELSE outputs[a][b][jj]]]]

\* outputs[:, :, j] = slice (line 791): the cube with the slice of iteration j
\* (counted from 0) replaced.
WriteSlice(outputs, j, slice) ==
    [a \in 1..Len(outputs) |-> [b \in 1..Len(outputs[a]) |->
        [jj \in 1..Len(outputs[a][b]) |->
            IF jj = j + 1 THEN slice[a][b] ELSE outputs[a][b][jj]]]]

\* The cube as an iteration leaves it is kept with the loop state.
RecordCube(st) == [st EXCEPT !.cubes = Append(st.cubes, st.outputs)]

\* Iteration j of the loop on b, the outcome of bootstrap_llh: an exception
\* leaves the cube as it is.
BootstrapIteration(st, j, b) ==
    RecordCube([err |-> b.err,
                outputs |-> IF b.err = "none"
                            THEN WriteSlice(st.outputs, j, b.outputs)
                            ELSE st.outputs,
                cubes |-> st.cubes,
                iterations |-> Append(st.iterations,
                                      [ij |-> j, isamp |-> b.isamp]),
                rng |-> b.rng])

\* The loop of lines 789-795 from iteration j on.  st holds the output cube,
\* the iterations run, the generator state and the exception.
RECURSIVE BootstrapLoop(_, _, _, _)
BootstrapLoop(self, st, j, number_bootstraps) ==
    IF j >= number_bootstraps \/ st.err # "none" THEN st
    ELSE BootstrapLoop(self,
             BootstrapIteration(st, j, bootstrap_llh(self, j, st.rng)),
             j + 1, number_bootstraps)

\* bootstrap_multivariate_llhvalues(number_bootstraps, sum_imts, parallelize)
\* with the random generator in state rng.
bootstrap_multivariate_llhvalues(self, number_bootstraps, sum_imts, parallelize, rng) ==
    LET ngmpes == Len(self.gmpe_list)
        nimts == Len(self.imts)
        st == BootstrapLoop(self,
                  [err |-> "none",
                   outputs |-> ZeroCube(ngmpes, nimts, number_bootstraps),
                   cubes |-> <<>>, iterations |-> <<>>, rng |-> rng],
                  0, number_bootstraps)
        outputs == st.outputs
        dist == get_distinctiveness(ngmpes, nimts, outputs, number_bootstraps, sum_imts)
    IN  IF parallelize
        THEN [err |-> "NotImplementedError", value |-> None, iterations |-> <<>>,
              cubes |-> <<>>, rng |-> rng]
        ELSE IF st.err # "none"
        THEN [err |-> st.err, value |-> None, iterations |-> st.iterations,
              cubes |-> st.cubes, rng |-> st.rng]
        ELSE IF dist.err # "none"
        THEN [err |-> dist.err, value |-> None, iterations |-> st.iterations,
              cubes |-> st.cubes, rng |-> st.rng]
        ELSE [err |-> "none",
              value |-> [distinctiveness |-> dist.value, outputs |-> outputs],
              iterations |-> st.iterations, cubes |-> st.cubes, rng |-> st.rng]

\* ---------------------------------------------------------------------- EDR

\* _get_edr_gmpe_information(gmpe): the log-observations, means and total
\* standard deviations of every IMT and context, pooled.  Expected[gmpe][imtx]
\* is subscripted without a test: a None entry is a TypeError.
_get_edr_gmpe_information(self, gmpe) ==
    LET ctxs == self.contexts.list
        cells == Flatten([b \in 1..Len(self.imts) |->
                     [k \in 1..Len(ctxs) |-> [imtx |-> self.imts[b], ctx |-> ctxs[k]]]])
        part(c, key) == IF key = "obs" THEN LogObs(c.ctx.Observations[c.imtx])
                        ELSE c.ctx.Expected[gmpe][c.imtx][key]
        pool(key) == Flatten([n \in 1..Len(cells) |-> part(cells[n], key)])
    IN  IF \E n \in 1..Len(cells) : IsNone(cells[n].ctx.Expected[gmpe][cells[n].imtx])
        THEN [err |-> "TypeError", obs |-> <<>>, expected |-> <<>>, stddev |-> <<>>]
        ELSE [err |-> "none", obs |-> pool("obs"), expected |-> pool("Mean"),
              stddev |-> pool("Total")]

\* get_edr_values(): for each model the three results of _get_edr, each given
\* by the pooled arrays it is computed from.  _get_edr takes the maximum of
\* the pooled distances: a ValueError when nothing is pooled.
get_edr_values(self) ==
    LET info(g) == _get_edr_gmpe_information(self, g)
        names == Keys(self.gmpe_list)
        failing == {a \in 1..Len(names) :
                       info(names[a]).err # "none" \/ Len(info(names[a]).obs) = 0}
    IN  IF failing # {}
        THEN [err |-> LET a == MinOf(failing) IN
                      IF info(names[a]).err # "none" THEN info(names[a]).err
                      ELSE "ValueError",
              value |-> None]
        ELSE [err |-> "none",
              value |-> [g \in KeySet(self.gmpe_list) |->
                           [key \in {"MDE Norm", "sqrt Kappa", "EDR"} |->
                               [obs |-> info(g).obs, expected |-> info(g).expected,
                                stddev |-> info(g).stddev]]]]

\* ---------------------------------------------------- SingleStationAnalysis

\* The elements of a set of integers in increasing order.
RECURSIVE Sorted(_)
Sorted(S) == IF S = {} THEN <<>> ELSE <<MinOf(S)>> \o Sorted(S \ {MinOf(S)})

\* SMRecordSelector(database).select_from_site_id(site_id, as_db=True): the
\* database of the records of one station; an event without a record of the
\* station is not in it.
select_from_site_id(database, site_id) ==
    LET at(rc) == Sorted({i \in 1..rc.NumSites : rc.Ctx.sids[i] = site_id})
        pick(seq, idx) == [n \in 1..Len(idx) |-> seq[idx[n]]]
        cut(rc) ==
            [rc EXCEPT !.Ctx.vs30 = pick(@, at(rc)),
                       !.Ctx.sids = pick(@, at(rc)),
                       !.NumSites = Len(at(rc)),
                       !.Observations =
                           [imtx \in DOMAIN @ |->
                               [@[imtx] EXCEPT !.ln = pick(@, at(rc))]]]
    IN  SelectSeq([k \in 1..Len(database) |-> cut(database[k])],
                  LAMBDA rc : rc.NumSites > 0)

\* SingleStationAnalysis.__init__(site_id_list, gmpe_list, imts)
SingleStationAnalysis__init__(site_id_list, gmpe_list_arg, imts_arg) ==
    LET chk == _check_gsim_list(gmpe_list_arg)
        gl == chk.value
    IN  IF chk.err # "none"
        THEN [err |-> chk.err]
        ELSE [err |-> "none",
              site_ids |-> site_id_list,
              input_gmpe_list |-> gmpe_list_arg,
              gmpe_list |-> gl,
              imts |-> imts_arg,
              site_residuals |-> <<>>,
              types |-> [g \in KeySet(gl) |-> [imtx \in Range(imts_arg) |->
                  GsimClasses[Lookup(gl, g).cls].DEFINED_FOR_STANDARD_DEVIATION_TYPES]]]

\* _set_empty_dict(): an empty dictionary for each model and IMT.  A
\* dictionary is a function of its keys; the empty one has no key.
_set_empty_dict(this) ==
    [g \in KeySet(this.gmpe_list) |-> [imtx \in Range(this.imts) |-> <<>>]]

\* The loop of get_site_residuals from site k on; st holds the analyses
\* appended and the model invocations made.
\* Lines 1056-1063 on r, the outcome of get_residuals for one site.
AppendSite(this, st, r) ==
    [err |-> r.err,
     site_residuals |->
        IF r.err # "none" THEN st.site_residuals
        ELSE Append(st.site_residuals,
                 [resid |-> r.self,
                  site_analysis |-> _set_empty_dict(this),
                  site_expected |-> _set_empty_dict(this)]),
     invoked |-> st.invoked \o r.invoked]

RECURSIVE SiteLoop(_, _, _, _)
SiteLoop(this, database, k, st) ==
    IF k > Len(this.site_ids) \/ st.err # "none" THEN st
    ELSE SiteLoop(this, database, k + 1,
             AppendSite(this, st,
                 get_residuals(Residuals__init__(this.input_gmpe_list, this.imts),
                               select_from_site_id(database, this.site_ids[k]),
                               FALSE)))

\* The analysis after the loop over the sites left st.
AfterSiteLoop(this, st) ==
    [err |-> st.err,
     this |-> [this EXCEPT !.site_residuals = st.site_residuals],
     invoked |-> st.invoked]

\* get_site_residuals(database)
get_site_residuals(this, database) ==
    AfterSiteLoop(this,
        SiteLoop(this, database, 1,
            [err |-> "none", site_residuals |-> this.site_residuals,
             invoked |-> <<>>]))

\* A numpy division of a float by an integer: dividing by zero gives nan or
\* inf (here <<1, 0>> or <<-1, 0>>) and does not raise.
FDiv(a, n) ==
    IF n # 0 THEN RDiv(a, RInt(n))
    ELSE IF a[1] = 0 THEN NaN ELSE IF a[1] > 0 THEN <<1, 0>> ELSE <<-1, 0>>

\* np.sum((intra_event - delta_s2ss) ** 2.)
SumSqDev(intra_event, delta_s2ss) ==
    RSum([n \in 1..Len(intra_event) |->
             RMul(RSub(intra_event[n], delta_s2ss), RSub(intra_event[n], delta_s2ss))])

\* _get_delta_s2ss(intra_event, n_events); n_events is not 0.
_get_delta_s2ss(intra_event, n_events) ==
    RMul(Rat(1, n_events), RSum(intra_event))

\* A single-station phi that divides by the number of records.
SingleStationPhiPopulation(intra_event, delta_s2ss, n_events) ==
    [sqrt |-> FDiv(SumSqDev(intra_event, delta_s2ss), n_events)]

\* _get_single_station_phi(intra_event, delta_s2ss, n_events): the square root
\* of the value of field sqrt.
_get_single_station_phi(intra_event, delta_s2ss, n_events) ==
    [sqrt |-> FDiv(SumSqDev(intra_event, delta_s2ss), n_events - 1)]

\* The body of the loops of residual_statistics for one stored analysis, one
\* model and one IMT: the exception raised and site_analysis[gmpe][imtx].
SiteAnalysisFor(t_resid, gmpe, imtx) ==
    LET store == t_resid.resid.residuals[gmpe][imtx]
        expected == t_resid.resid.modelled[gmpe][imtx]
        before == t_resid.site_analysis[gmpe][imtx]
        n_events == Len(store["Total"].data)
        total == ("events" :> n_events) @@ ("Total" :> store["Total"])
                 @@ ("Expected Total" :> expected["Total"])
        intra == store["Intra event"].data
        delta_s2ss == _get_delta_s2ss(intra, n_events)
    IN  IF Falsy(store) THEN [err |-> "none", value |-> before]
        ELSE IF "Intra event" \notin DOMAIN store
        THEN [err |-> "none", value |-> total @@ before]
        ELSE IF n_events = 0
        THEN [err |-> "ZeroDivisionError", value |-> total @@ before]
        ELSE [err |-> "none",
              value |->
                 ("Intra event" :> store["Intra event"])
                 @@ ("Inter event" :> store["Inter event"])
                 @@ ("dS2ss" :> delta_s2ss)
                 @@ ("dWo,es" :> NdArray([n \in 1..Len(intra) |->
                                             RSub(intra[n], delta_s2ss)]))
                 @@ ("phi_ss,s" :> _get_single_station_phi(intra, delta_s2ss, n_events))
                 @@ ("Expected Inter" :> expected["Inter event"])
                 @@ ("Expected Intra" :> expected["Intra event"])
                 @@ total @@ before]

\* get_total_phi_ss(pretty_print): the exception raised, the pairs reported
\* as without random effects residuals, and the two dictionaries built.
\* The function has no return statement.
get_total_phi_ss(this, pretty_print) ==
    LET names == Keys(this.gmpe_list)
        all == Flatten([a \in 1..Len(names) |-> [b \in 1..Len(this.imts) |->
                   [gmpe |-> names[a], imtx |-> this.imts[b]]]])
        sites == this.site_residuals
        an(k, c) == sites[k].site_analysis[c.gmpe][c.imtx]
        has(c) == "Intra event" \in DOMAIN an(1, c)
        skipped == SelectSeq(all, LAMBDA c : ~has(c))
        d2ss(c) == [k \in 1..Len(sites) |-> an(k, c)["dS2ss"]]
        numerator_sum(c) ==
            RSum([k \in 1..Len(sites) |->
                     SumSqDev(an(k, c)["Intra event"].data, an(k, c)["dS2ss"])])
        n_total(c) == RSum([k \in 1..Len(sites) |-> RInt(an(k, c)["events"])])[1]
        mean(c) == NanMean(d2ss(c))
    IN  IF all # <<>> /\ sites = <<>>
        THEN [err |-> "IndexError", value |-> None, notices |-> <<>>]
        ELSE IF \E n \in 1..Len(all), k \in 1..Len(sites) :
                    has(all[n]) /\ "dS2ss" \notin DOMAIN an(k, all[n])
        THEN [err |-> "KeyError", value |-> None, notices |-> skipped]
        ELSE IF pretty_print /\ skipped # <<>>
        THEN [err |-> "KeyError", value |-> None, notices |-> skipped]
        ELSE [err |-> "none", value |-> None, notices |-> skipped,
              phi_ss |-> [n \in {n \in 1..Len(all) : has(all[n])} |->
                  [sqrt |-> FDiv(numerator_sum(all[n]), n_total(all[n]) - 1)]],
              phi_s2ss |-> [n \in {n \in 1..Len(all) : has(all[n])} |->
                  [Mean |-> mean(all[n]),
                   StdDev |-> [sqrt |-> NanMean([k \in 1..Len(sites) |->
                       RMul(RSub(d2ss(all[n])[k], mean(all[n])),
                            RSub(d2ss(all[n])[k], mean(all[n])))])]]]]

\* residual_statistics(pretty_print): site_residuals is replaced once every
\* stored analysis is done, and get_total_phi_ss gives the result.
residual_statistics(this, pretty_print) ==
    LET one(k, g, imtx) == SiteAnalysisFor(this.site_residuals[k], g, imtx)
        output_resid ==
            [k \in 1..Len(this.site_residuals) |->
                [this.site_residuals[k] EXCEPT !.site_analysis =
                    [g \in KeySet(this.gmpe_list) |-> [imtx \in Range(this.imts) |->
                        one(k, g, imtx).value]]]]
        raised == \E k \in 1..Len(this.site_residuals), g \in KeySet(this.gmpe_list),
                     imtx \in Range(this.imts) : one(k, g, imtx).err # "none"
        after == [this EXCEPT !.site_residuals = output_resid]
        total == get_total_phi_ss(after, pretty_print)
    IN  IF raised
        THEN [err |-> "ZeroDivisionError", this |-> this, value |-> None,
              notices |-> <<>>]
        ELSE [err |-> total.err, this |-> after, value |-> total.value,
              notices |-> total.notices]

\* ================================================================ the state

VARIABLES
    gmpe_list,       \* Residuals.gmpe_list: the resolved models, in order
    imts,            \* Residuals.imts
    types,           \* Residuals.types[gmpe][imtx]
    residuals,       \* Residuals.residuals[gmpe][imtx][res_type]
    modelled,        \* Residuals.modelled[gmpe][imtx][res_type or "Mean"]
    unique_indices,  \* Residuals.unique_indices[gmpe][imtx]
    gmpe_sa_limits,  \* Residuals.gmpe_sa_limits[gmpe]
    contexts,        \* Residuals.contexts: None, or [list |-> the contexts]
    call,            \* the last operation called, with its arguments
    err,             \* the exception it raised, or "none"
    result,          \* what it returned (None when it raised)
    invoked,         \* the model invocations the last operation made
    fetched,         \* whether get_contexts was ever called
    ssa,             \* the SingleStationAnalysis object, None before it is built
    rng              \* the state of numpy's global random generator

vars == <<gmpe_list, imts, types, residuals, modelled, unique_indices,
          gmpe_sa_limits, contexts, call, err, result, invoked, fetched, ssa,
          rng>>

object == <<gmpe_list, imts, types, residuals, modelled, unique_indices,
            gmpe_sa_limits, contexts>>

\* The Residuals object as the operators above take it.
Self ==
    [gmpe_list |-> gmpe_list, imts |-> imts, types |-> types,
     residuals |-> residuals, modelled |-> modelled,
     unique_indices |-> unique_indices, gmpe_sa_limits |-> gmpe_sa_limits,
     contexts |-> contexts]

\* Whether a Residuals object exists.
Built == ~IsNone(types)

SetSelf(s) ==
    /\ gmpe_list' = s.gmpe_list
    /\ imts' = s.imts
    /\ types' = s.types
    /\ residuals' = s.residuals
    /\ modelled' = s.modelled
    /\ unique_indices' = s.unique_indices
    /\ gmpe_sa_limits' = s.gmpe_sa_limits
    /\ contexts' = s.contexts

\* The lists of model identifiers a constructor is called with.
GsimLists == UNION {[1..n -> Identifiers] : n \in 1..MaxModels}

Init ==
    /\ gmpe_list = None
    /\ imts = None
    /\ types = None
    /\ residuals = None
    /\ modelled = None
    /\ unique_indices = None
    /\ gmpe_sa_limits = None
    /\ contexts = None
    /\ call = [op |-> "none"]
    /\ err = "none"
    /\ result = None
    /\ invoked = <<>>
    /\ fetched = FALSE
    /\ ssa = None
    /\ rng = 0

\* Residuals(gmpe_list, imts)
Construct(gl, il) ==
    /\ ~Built
    /\ \E r \in {Residuals__init__(gl, il)} :
       /\ IF r.err = "none" THEN SetSelf(r) ELSE UNCHANGED object
       /\ err' = r.err
    /\ call' = [op |-> "Residuals", gmpe_list |-> gl, imts |-> il]
    /\ result' = None
    /\ UNCHANGED <<invoked, fetched, ssa, rng>>

\* residuals.get_residuals(database, normalise=normalise)
GetResiduals(database, normalise) ==
    /\ Built
    /\ \E r \in {get_residuals(Self, database, normalise)} :
       /\ SetSelf(r.self)
       /\ err' = r.err
       /\ invoked' = r.invoked
    /\ fetched' = TRUE
    /\ call' = [op |-> "get_residuals", database |-> database,
                normalise |-> normalise]
    /\ result' = None
    /\ UNCHANGED <<ssa, rng>>

Next ==
    \/ \E gl \in GsimLists, il \in ImtLists : Construct(gl, il)
    \/ \E db \in Databases, nm \in BOOLEAN : GetResiduals(db, nm)

Spec == Init /\ [][Next]_vars

\* ------------------------------------------------- the statistics operations

\* A Residuals object on which get_residuals has run once.
AfterGetResiduals ==
    \E gl \in GsimLists, il \in ImtLists, db \in Databases, nm \in BOOLEAN :
        /\ Residuals__init__(gl, il).err = "none"
        /\ \E r \in {get_residuals(Residuals__init__(gl, il), db, nm)} :
           /\ gmpe_list = r.self.gmpe_list
           /\ imts = r.self.imts
           /\ types = r.self.types
           /\ residuals = r.self.residuals
           /\ modelled = r.self.modelled
           /\ unique_indices = r.self.unique_indices
           /\ gmpe_sa_limits = r.self.gmpe_sa_limits
           /\ contexts = r.self.contexts
           /\ err = r.err
           /\ invoked = r.invoked
        /\ call = [op |-> "get_residuals", database |-> db, normalise |-> nm]
        /\ result = None
        /\ fetched = TRUE
        /\ ssa = None

InitStats == AfterGetResiduals /\ rng = 0

\* An operation that returns value, or raises, and empties the retained
\* contexts.
ReturnsAndClears(r) ==
    /\ err' = r.err
    /\ result' = r.value
    /\ contexts' = [list |-> <<>>]
    /\ UNCHANGED <<gmpe_list, imts, types, residuals, modelled, unique_indices,
                   gmpe_sa_limits, invoked, fetched, ssa>>

\* A statistics operation that returns value, or raises.
Returns(r) ==
    /\ err' = r.err
    /\ result' = r.value
    /\ UNCHANGED <<object, invoked, fetched, ssa>>

GetResidualStatistics ==
    /\ UNCHANGED rng
    /\ Returns([err |-> "none", value |-> get_residual_statistics(Self)])
    /\ call' = [op |-> "get_residual_statistics"]

GetLikelihoodValues ==
    /\ UNCHANGED rng
    /\ Returns([err |-> "none", value |-> get_likelihood_values(Self)])
    /\ call' = [op |-> "get_likelihood_values"]

GetLoglikelihoodValues(req) ==
    /\ UNCHANGED rng
    /\ \E r \in {get_loglikelihood_values(Self, req)} : Returns(r)
    /\ call' = [op |-> "get_loglikelihood_values", imts |-> req]

GetMultivariateLoglikelihoodValues(sum_imts) ==
    /\ UNCHANGED rng
    /\ \E r \in {get_multivariate_loglikelihood_values(Self, sum_imts)} : Returns(r)
    /\ call' = [op |-> "get_multivariate_loglikelihood_values",
                sum_imts |-> sum_imts]

GetEdrValues ==
    /\ UNCHANGED rng
    /\ \E r \in {get_edr_values(Self)} : Returns(r)
    /\ call' = [op |-> "get_edr_values"]

NextStats ==
    \/ GetResidualStatistics
    \/ GetLikelihoodValues
    \/ \E req \in ImtLists : GetLoglikelihoodValues(req)
    \/ \E sum_imts \in BOOLEAN : GetMultivariateLoglikelihoodValues(sum_imts)
    \/ GetEdrValues

SpecStats == InitStats /\ [][NextStats]_vars

\* ------------------------------------------- the deprecated MultivariateLLH

\* MultivariateLLH(gmpe_list, imts) builds the object as Residuals does
\* (super().__init__ after the warning); get_likelihood_values(sum_imts) is
\* the method of the subclass.
MultivariateLLHGetLikelihoodValues(sum_imts) ==
    /\ UNCHANGED rng
    /\ \E r \in {MultivariateLLH_get_likelihood_values(Self, sum_imts)} : Returns(r)
    /\ call' = [op |-> "MultivariateLLH.get_likelihood_values",
                sum_imts |-> sum_imts]

NextDeprecated ==
    \/ \E sum_imts \in BOOLEAN : GetMultivariateLoglikelihoodValues(sum_imts)
    \/ \E sum_imts \in BOOLEAN : MultivariateLLHGetLikelihoodValues(sum_imts)

SpecDeprecated == InitStats /\ [][NextDeprecated]_vars

\* ------------------------------------------------------------ the bootstrap

InitBoot == AfterGetResiduals /\ rng \in RngStates

\* bootstrap_multivariate_llhvalues(number_bootstraps, sum_imts, parallelize);
\* the iterations run, and the output cube as each left it, are kept with
\* the call.
BootstrapMultivariateLlhvalues(number_bootstraps, sum_imts, parallelize) ==
    /\ \E r \in {bootstrap_multivariate_llhvalues(Self, number_bootstraps,
                                                  sum_imts, parallelize, rng)} :
       /\ Returns(r)
       /\ rng' = r.rng
       /\ call' = [op |-> "bootstrap_multivariate_llhvalues",
                   number_bootstraps |-> number_bootstraps,
                   sum_imts |-> sum_imts, parallelize |-> parallelize,
                   iterations |-> r.iterations, cubes |-> r.cubes]

NextBoot ==
    \E nb \in 0..MaxBoot, sum_imts \in BOOLEAN, par \in BOOLEAN :
        BootstrapMultivariateLlhvalues(nb, sum_imts, par)

SpecBoot == InitBoot /\ [][NextBoot]_vars

\* ----------------------------- the statistics operations and the bootstrap

\* self.get_distinctiveness(outputs, number_bootstraps, sum_imts) on the
\* output cube a bootstrap returned.
GetDistinctivenessOfOutputs(sum_imts) ==
    /\ call.op = "bootstrap_multivariate_llhvalues" /\ err = "none"
    /\ \E r \in {get_distinctiveness(Len(gmpe_list), Len(imts), result.outputs,
                                     call.number_bootstraps, sum_imts)} :
           Returns(r)
    /\ call' = [op |-> "get_distinctiveness", sum_imts |-> sum_imts,
                number_bootstraps |-> call.number_bootstraps]
    /\ UNCHANGED rng

NextAllStats ==
    \/ NextStats
    \/ NextBoot
    \/ \E sum_imts \in BOOLEAN : GetDistinctivenessOfOutputs(sum_imts)

SpecAllStats == InitStats /\ [][NextAllStats]_vars

\* -------------------------------------------------- single-station analysis

\* The site lists an analysis is built with.
SiteLists == {<<"S1">>, <<"S1", "S2">>}

\* SingleStationAnalysis(site_id_list, gmpe_list, imts)
SSAConstruct(sites, gl, il) ==
    /\ IsNone(ssa)
    /\ \E r \in {SingleStationAnalysis__init__(sites, gl, il)} :
       /\ ssa' = IF r.err = "none" THEN [x \in DOMAIN r \ {"err"} |-> r[x]] ELSE ssa
       /\ err' = r.err
    /\ call' = [op |-> "SingleStationAnalysis", site_ids |-> sites,
                gmpe_list |-> gl, imts |-> il]
    /\ result' = None
    /\ UNCHANGED <<object, invoked, fetched, rng>>

\* ssa.get_site_residuals(database); at most MaxSiteRuns runs are followed.
GetSiteResiduals(database) ==
    /\ ~IsNone(ssa)
    /\ Len(ssa.site_residuals) < MaxSiteRuns * Len(ssa.site_ids)
    /\ \E r \in {get_site_residuals(ssa, database)} :
       /\ ssa' = r.this
       /\ err' = r.err
       /\ invoked' = r.invoked
    /\ fetched' = TRUE
    /\ call' = [op |-> "get_site_residuals", database |-> database]
    /\ result' = None
    /\ UNCHANGED <<object, rng>>

\* ssa.residual_statistics(pretty_print); the pairs reported as skipped are
\* kept with the call.
ResidualStatistics(pretty_print) ==
    /\ ~IsNone(ssa)
    /\ \E r \in {residual_statistics(ssa, pretty_print)} :
       /\ ssa' = r.this
       /\ err' = r.err
       /\ result' = r.value
       /\ call' = [op |-> "residual_statistics", pretty_print |-> pretty_print,
                   notices |-> r.notices]
    /\ UNCHANGED <<object, invoked, fetched, rng>>

\* ssa.get_total_phi_ss(pretty_print)
GetTotalPhiSs(pretty_print) ==
    /\ ~IsNone(ssa)
    /\ \E r \in {get_total_phi_ss(ssa, pretty_print)} :
       /\ err' = r.err
       /\ result' = r.value
       /\ call' = [op |-> "get_total_phi_ss", pretty_print |-> pretty_print,
                   notices |-> r.notices]
    /\ UNCHANGED <<object, ssa, invoked, fetched, rng>>

NextSSA ==
    \/ \E sites \in SiteLists, gl \in GsimLists, il \in ImtLists :
           SSAConstruct(sites, gl, il)
    \/ \E db \in Databases : GetSiteResiduals(db)
    \/ \E pp \in BOOLEAN : ResidualStatistics(pp)
    \/ \E pp \in BOOLEAN : GetTotalPhiSs(pp)

SpecSSA == Init /\ [][NextSSA]_vars

\* --------------------------------- get_distinctiveness on an output cube

\* The values of a cell of an output cube.
CellValues == <<RInt(0), RInt(1), NaN>>

\* The output cubes of ngmpes models, nimts IMTs and nb draws: the cell of
\* model i, IMT k and draw b holds CellValues[(a[i][k] + b * s) % 3 + 1].
Cubes(ngmpes, nimts, nb) ==
    {[i \in 1..ngmpes |-> [k \in 1..nimts |-> [b \in 1..nb |->
          CellValues[((a[i][k] + b * s) % 3) + 1]]]] :
        a \in [1..ngmpes -> [1..nimts -> 0..2]], s \in 0..2}

\* No object is built: the operation is applied to the arguments drawn.
Pinned ==
    /\ gmpe_list = None /\ imts = None /\ types = None /\ residuals = None
    /\ modelled = None /\ unique_indices = None /\ gmpe_sa_limits = None
    /\ contexts = None /\ err = "none" /\ result = None /\ invoked = <<>>
    /\ fetched = FALSE /\ ssa = None /\ rng = 0

InitDist ==
    /\ Pinned
    /\ \E ngmpes \in 1..MaxModels, nimts \in 1..2, nb \in 0..MaxBoot,
          sum_imts \in BOOLEAN :
          \E outputs \in Cubes(ngmpes, nimts, nb) :
             call = [op |-> "get_distinctiveness", ngmpes |-> ngmpes,
                     nimts |-> nimts, outputs |-> outputs,
                     number_bootstraps |-> nb, sum_imts |-> sum_imts]

\* get_distinctiveness(outputs, number_bootstraps, sum_imts) of an object
\* with ngmpes models and nimts IMTs.
GetDistinctiveness ==
    /\ call.op = "get_distinctiveness"
    /\ \E r \in {get_distinctiveness(call.ngmpes, call.nimts, call.outputs,
                                     call.number_bootstraps, call.sum_imts)} :
           Returns(r)
    /\ UNCHANGED <<call, rng>>

NextDist == GetDistinctiveness

SpecDist == InitDist /\ [][NextDist]_vars

\* ------------------------------------------ the model weights on LLH values

\* The aggregate LLH values drawn.
LLHValues == (1 - MaxLLH)..MaxLLH

\* The display names of the catalog, and the lists of models weighted.
GmpeNames == <<"Full", "Hetero", "GMPETable">>

InitLLH ==
    /\ Pinned
    /\ \E n \in 1..MaxModels :
          \E llh \in [Range(SubSeq(GmpeNames, 1, n)) -> [{"All"} -> LLHValues]] :
             call = [op |-> "model_weights", gmpes |-> SubSeq(GmpeNames, 1, n),
                     llh |-> llh]

ModelWeights ==
    /\ call.op = "model_weights"
    /\ Returns([err |-> "none", value |-> model_weights(call.gmpes, call.llh)])
    /\ UNCHANGED <<call, rng>>

NextLLH == ModelWeights

SpecLLH == InitLLH /\ [][NextLLH]_vars

\* -------------------------- _get_random_effects_residuals on drawn contexts

\* The log-observations, means and standard deviations of a record.
ObsValues == {RInt(0), RInt(1), RInt(2)}

MeanValues == {RInt(0), RInt(1)}

StdDevValues == {RInt(1), RInt(2)}

InitRE ==
    /\ Pinned
    /\ \E n \in 1..MaxRecords, normalise \in BOOLEAN :
          \E obs \in [1..n -> ObsValues], mean \in [1..n -> MeanValues],
             inter \in [1..n -> StdDevValues], intra \in [1..n -> StdDevValues] :
             call = [op |-> "_get_random_effects_residuals", obs |-> obs,
                     mean |-> mean, inter |-> inter, intra |-> intra,
                     normalise |-> normalise]

GetRandomEffectsResiduals ==
    /\ call.op = "_get_random_effects_residuals"
    /\ \E r \in {_get_random_effects_residuals(call.obs, call.mean, call.inter,
                                               call.intra, call.normalise)} :
           Returns([err |-> "none", value |-> r])
    /\ UNCHANGED <<call, rng>>

NextRE == GetRandomEffectsResiduals

SpecRE == InitRE /\ [][NextRE]_vars

\* ------------------------------------ _build_matrices on drawn context lists

\* The entries Expected[gmpe][imtx] of a context of n records: None (the IMT
\* is outside the model's periods), the total sigma only, or the mean with
\* the intra-event sigma and the inter-event sigma, the latter one value per
\* record or a single value.
MatEntries(n) ==
    {None}
    \cup {[k \in {"Mean", "Total"} |-> [i \in 1..n |-> IF k = "Mean" THEN RInt(0) ELSE t]] :
             t \in StdDevValues}
    \cup {[k \in {"Mean", "Intra event", "Inter event"} |->
              IF k = "Mean" THEN [i \in 1..n |-> RInt(0)]
              ELSE IF k = "Intra event" THEN [i \in 1..n |-> phi]
              ELSE tau] :
             phi \in StdDevValues,
             tau \in [1..n -> StdDevValues] \cup [{1} -> StdDevValues]}

\* The contexts of n records with such an entry for the model "Full" and PGA.
MatContexts ==
    UNION {{[NumSites |-> n,
             Observations |-> [imtx \in {"PGA"} |->
                                  [unit |-> "g", ln |-> [i \in 1..n |-> i]]],
             Expected |-> [g \in {"Full"} |-> [imtx \in {"PGA"} |-> e]]] :
               e \in MatEntries(n)} : n \in 1..MaxRecords}

InitMat ==
    /\ Pinned
    /\ \E n \in 0..MaxCtx :
          \E ctxs \in [1..n -> MatContexts] :
             call = [op |-> "_build_matrices", contexts |-> ctxs,
                     gmpe |-> "Full", imtx |-> "PGA"]

\* _build_matrices(contexts, gmpe, imtx) on the list drawn.
BuildMatrices ==
    /\ call.op = "_build_matrices"
    /\ \E r \in {_build_matrices(call.contexts, call.gmpe, call.imtx)} : Returns(r)
    /\ UNCHANGED <<call, rng>>

NextMat == BuildMatrices

SpecMat == InitMat /\ [][NextMat]_vars

\* ------------- get_multivariate_loglikelihood_values on drawn LLH values

\* What get_multivariate_ll returns for a model and an IMT: a value, or
\* not-a-number.
LLHCells == {RInt(1), RInt(2), NaN}

\* The stores of the models gmpes for the IMTs: None for an IMT outside the
\* model's periods, an array otherwise.
StoresOf(gmpes, imts_) == [gmpes -> [Range(imts_) -> {None, NdArray(<<>>)}]]

InitSum ==
    /\ Pinned
    /\ \E n \in 1..MaxModels, il \in ImtLists, sum_imts \in BOOLEAN :
          \E stores \in StoresOf(Range(SubSeq(GmpeNames, 1, n)), il),
             llh \in [Range(SubSeq(GmpeNames, 1, n)) -> [Range(il) -> LLHCells]] :
             call = [op |-> "get_multivariate_loglikelihood_values",
                     gmpes |-> SubSeq(GmpeNames, 1, n), imts |-> il,
                     residuals |-> stores, llh |-> llh, sum_imts |-> sum_imts]

\* get_multivariate_loglikelihood_values(sum_imts) of an object with the
\* stores drawn, get_multivariate_ll returning the values drawn.
SumMultivariateLLH ==
    /\ call.op = "get_multivariate_loglikelihood_values"
    /\ \E r \in {MultivariateLLHValues(Range(call.gmpes), call.imts, call.residuals,
                      [g \in Range(call.gmpes) |-> [imtx \in Range(call.imts) |->
                          [err |-> "none", value |-> call.llh[g][imtx]]]],
                      call.sum_imts)} : Returns(r)
    /\ UNCHANGED <<call, rng>>

NextSum == SumMultivariateLLH

SpecSum == InitSum /\ [][NextSum]_vars

\* ================================================================ properties

\* The standard deviation types the model named g declares, and whether the
\* period of an IMT is below its lowest or above its highest period.
DeclaredTypes(g) ==
    Range(GsimClasses[Lookup(gmpe_list, g).cls].DEFINED_FOR_STANDARD_DEVIATION_TYPES)

PeriodOutside(g, imtx) ==
    LET periods == GsimClasses[Lookup(gmpe_list, g).cls].sa_periods
    IN  /\ IsSA(imtx)
        /\ \/ \A per \in periods : ImtPeriod[imtx] < per
           \/ \A per \in periods : ImtPeriod[imtx] > per

\* The number of records of a list of contexts.
RECURSIVE NumRecords(_)
NumRecords(ctxs) ==
    IF ctxs = <<>> THEN 0 ELSE Head(ctxs).NumSites + NumRecords(Tail(ctxs))

GetResidualsDone == Built /\ call.op = "get_residuals" /\ err = "none"

\* C1: after get_residuals, for every applicable (model, IMT) the residual
\* array and the modelled array of each stored residual type have the same
\* length, and modelled 'Mean' has one element per record of the contexts.
C1_StoreLengthsAgree ==
    GetResidualsDone =>
        \A g \in KeySet(gmpe_list), imtx \in Range(imts) :
            ~Falsy(residuals[g][imtx]) =>
                /\ \A t \in DOMAIN residuals[g][imtx] :
                       Len(residuals[g][imtx][t].data) = Len(modelled[g][imtx][t].data)
                /\ Len(modelled[g][imtx]["Mean"].data) = NumRecords(contexts.list)

\* C3: Expected[model][IMT] of a processed context is None exactly when the
\* IMT is spectral with a period outside the model's range; then the model
\* is not invoked for the pair and Residual is None too; otherwise the model
\* is invoked once for the (context, model, IMT) and Expected has 'Mean' and
\* one entry per declared standard deviation type.
C3_ExpectedNoneIffOutside ==
    (Built /\ ~IsNone(contexts)) =>
        /\ \A n \in 1..Len(invoked) : ~PeriodOutside(invoked[n].gmpe, invoked[n].imtx)
        /\ \A k \in 1..Len(contexts.list), g \in KeySet(gmpe_list), imtx \in Range(imts) :
              LET c == contexts.list[k]
                  calls == {n \in 1..Len(invoked) :
                               /\ invoked[n].EventID = c.EventID
                               /\ invoked[n].gmpe = g
                               /\ invoked[n].imtx = imtx}
                  same == {j \in 1..Len(contexts.list) :
                              contexts.list[j].EventID = c.EventID}
              IN  IF PeriodOutside(g, imtx)
                  THEN /\ IsNone(c.Expected[g][imtx])
                       /\ IsNone(c.Residual[g][imtx])
                       /\ calls = {}
                  ELSE /\ ~IsNone(c.Expected[g][imtx])
                       /\ DOMAIN c.Expected[g][imtx] = {"Mean"} \cup DeclaredTypes(g)
                       /\ err = "none" => Cardinality(calls) = Cardinality(same)

\* A processed context with a pair outside the range and a pair inside it.
C3_Witness ==
    /\ GetResidualsDone
    /\ \E k \in 1..Len(contexts.list), g \in KeySet(gmpe_list) :
          \E imtx \in Range(imts), other \in Range(imts) :
             /\ IsNone(contexts.list[k].Expected[g][imtx])
             /\ ~IsNone(contexts.list[k].Expected[g][other])
             /\ \E n \in 1..Len(invoked) : invoked[n].gmpe = g /\ invoked[n].imtx = other

\* Whether a list of identifiers has a plain name that is not in the catalog.
HasUnknownName(gl) ==
    \E k \in 1..Len(gl) :
        gl[k].kind = "str" /\ gl[k].text \notin TableRefs /\ gl[k].text \notin GSIM_LIST

\* C5: a constructor called with a plain name that is not in the catalog
\* fails with the unsupported-model error (a ValueError): no store exists, no
\* context was fetched and no model was invoked; SingleStationAnalysis fails
\* the same way on the same list.
C5_UnknownNameFailsSetup ==
    (call.op = "Residuals" /\ HasUnknownName(call.gmpe_list)) =>
        /\ err = "ValueError"
        /\ ~Built
        /\ IsNone(residuals) /\ IsNone(modelled) /\ IsNone(contexts)
        /\ ~fetched
        /\ invoked = <<>>
        /\ \A sites \in SiteLists :
               SingleStationAnalysis__init__(sites, call.gmpe_list, call.imts)
                   = [err |-> "ValueError"]

\* A constructor that failed on the second identifier of its list.
C5_Witness ==
    /\ call.op = "Residuals"
    /\ err = "ValueError"
    /\ Len(call.gmpe_list) = 2
    /\ ~HasUnknownName(<<call.gmpe_list[1]>>)
    /\ HasUnknownName(<<call.gmpe_list[2]>>)

\* The display name an identifier resolves to, and its instance when it is
\* the k-th of the list.
DisplayName(gsim) ==
    IF gsim.kind = "GMPE" THEN gsim.cls
    ELSE IF gsim.text \in TableRefs THEN "GMPETable" ELSE gsim.text

InstanceOf(gsim, k) ==
    IF gsim.kind = "GMPE" THEN Instance(gsim.cls, gsim.oid)
    ELSE Instance(DisplayName(gsim), k)

ConstructDone == Built /\ call.op = "Residuals" /\ err = "none"

\* C6 as stated: _check_gsim_list returns one name -> instance entry per
\* identifier of the list, in the order of the list, also when two
\* identifiers resolve to the same display name.
C6_OneEntryPerIdentifier ==
    ConstructDone =>
        /\ Len(gmpe_list) = Len(call.gmpe_list)
        /\ \A k \in 1..Len(gmpe_list) :
               gmpe_list[k].name = DisplayName(call.gmpe_list[k])

\* C6, amended: _check_gsim_list returns one entry per distinct display
\* name, in the order of the first identifier of each name, holding the
\* instance of the last identifier of that name.
C6_OneEntryPerName ==
    ConstructDone =>
        LET gl == call.gmpe_list
            firsts == {k \in 1..Len(gl) :
                          \A j \in 1..(k - 1) : DisplayName(gl[j]) # DisplayName(gl[k])}
            last(name) == CHOOSE k \in 1..Len(gl) :
                              /\ DisplayName(gl[k]) = name
                              /\ \A j \in (k + 1)..Len(gl) : DisplayName(gl[j]) # name
        IN  /\ Len(gmpe_list) = Cardinality(firsts)
            /\ \A a \in 1..Len(gmpe_list) :
                   \E k \in firsts :
                       /\ Cardinality({j \in firsts : j <= k}) = a
                       /\ gmpe_list[a].name = DisplayName(gl[k])
                       /\ gmpe_list[a].inst =
                              InstanceOf(gl[last(DisplayName(gl[k]))],
                                         last(DisplayName(gl[k])))

\* A list whose two identifiers resolve to the same display name.
C6_Witness ==
    /\ ConstructDone
    /\ Len(call.gmpe_list) = 2
    /\ DisplayName(call.gmpe_list[1]) = DisplayName(call.gmpe_list[2])
    /\ Len(gmpe_list) = 1

\* Whether some (model, IMT) of the object is outside the model's range.
HasOutsidePair ==
    \E g \in KeySet(gmpe_list), imtx \in Range(imts) : PeriodOutside(g, imtx)

\* C2: with a requested spectral IMT outside a model's period range,
\* get_residuals and every statistics operation complete without raising
\* (on a database that yields a context, and for get_loglikelihood_values on
\* IMTs of the analysis).
C2_OutOfRangeIsSkipped ==
    (/\ Built /\ HasOutsidePair /\ Len(contexts.list) > 0
     /\ call.op = "get_loglikelihood_values" => Range(call.imts) \subseteq Range(imts))
        => err = "none"

\* C7: bootstrap_multivariate_llhvalues with parallelize raises
\* NotImplementedError and runs no iteration; without it, it runs exactly
\* number_bootstraps iterations, in increasing iteration index (on a
\* database that yields a context).
C7_BootstrapIterations ==
    (call.op = "bootstrap_multivariate_llhvalues" /\ Len(contexts.list) > 0) =>
        IF call.parallelize
        THEN err = "NotImplementedError" /\ call.iterations = <<>>
        ELSE /\ Len(call.iterations) = call.number_bootstraps
             /\ \A j \in 1..Len(call.iterations) : call.iterations[j].ij = j - 1

\* Whether no model of the single-station analysis declares both the
\* inter-event and the intra-event standard deviation.
NoDecomposition ==
    \A g \in KeySet(ssa.gmpe_list) :
        ~({"Inter event", "Intra event"} \subseteq
              Range(GsimClasses[Lookup(ssa.gmpe_list, g).cls].
                        DEFINED_FOR_STANDARD_DEVIATION_TYPES))

\* C4: for models without the inter-event / intra-event decomposition,
\* residual_statistics and get_total_phi_ss, with or without pretty_print,
\* skip the pair and do not raise.
C4_UndecomposedIsSkipped ==
    (/\ ~IsNone(ssa)
     /\ call.op \in {"residual_statistics", "get_total_phi_ss"}
     /\ ssa.site_residuals # <<>>
     /\ NoDecomposition) => err = "none"

\* Whether the operation drawn with the initial state was applied.
Applied == ~IsNone(result) \/ err # "none"

RNeg(x) == RSub(RInt(0), x)

InUnit(x) == ~RLess(x, RInt(-1)) /\ ~RLess(RInt(1), x)

\* C8: for a cube of at least one draw and both settings of sum_imts, every
\* entry of get_distinctiveness is in [-1, 1], the entry of (i, j) is minus
\* the entry of (j, i), and the diagonal is zero.
C8_DistinctivenessAntisymmetric ==
    (call.op = "get_distinctiveness" /\ Applied /\ call.number_bootstraps >= 1) =>
        /\ err = "none"
        /\ \A i \in 1..call.ngmpes, j \in 1..call.ngmpes :
              IF call.sum_imts
              THEN /\ InUnit(result.data[i][j])
                   /\ result.data[i][j] = RNeg(result.data[j][i])
                   /\ i = j => result.data[i][j] = RInt(0)
              ELSE \A k \in 1..call.nimts :
                   /\ InUnit(result.data[i][j][k])
                   /\ result.data[i][j][k] = RNeg(result.data[j][i][k])
                   /\ i = j => result.data[i][j][k] = RInt(0)

\* Two models, two IMTs, IMTs summed: a model ahead in some draws only.
C8_Witness ==
    /\ call.op = "get_distinctiveness" /\ Applied /\ err = "none"
    /\ call.ngmpes >= 2 /\ call.nimts = 2 /\ call.number_bootstraps >= 2
    /\ call.sum_imts
    /\ RLess(RInt(0), result.data[1][2]) /\ RLess(result.data[1][2], RInt(1))
    /\ \E k \in 1..2, b \in 1..call.number_bootstraps : IsNaN(call.outputs[1][k][b])

\* C9: the model weights are 2^(-LLH_all) normalised: they sum to 1, the
\* weights of two models are in the ratio 2^(difference of their LLH), and
\* the model with the strictly lower LLH has the strictly higher weight.
C9_WeightsNormalised ==
    (call.op = "model_weights" /\ Applied) =>
        LET all(g) == call.llh[g]["All"] IN
        /\ RSum([i \in 1..Len(call.gmpes) |-> result[call.gmpes[i]]]) = RInt(1)
        /\ \A g \in Range(call.gmpes), h \in Range(call.gmpes) :
              /\ all(g) <= all(h) =>
                     result[g] = RMul(result[h], RInt(Pow2(all(h) - all(g))))
              /\ all(g) < all(h) => RLess(result[h], result[g])

\* Two models of different LLH, one of them negative.
C9_Witness ==
    /\ call.op = "model_weights" /\ Applied
    /\ Len(call.gmpes) = 2
    /\ call.llh["Full"]["All"] < 0
    /\ call.llh["Hetero"]["All"] > 0
    /\ RLess(result["Hetero"], result["Full"])

\* C10: with normalisation off, mean_i + eta_i + intra_i = obs_i for every
\* record i, eta and intra being the residuals returned for the context.
C10_DecompositionRoundTrip ==
    (call.op = "_get_random_effects_residuals" /\ Applied /\ ~call.normalise) =>
        \A i \in 1..Len(call.obs) :
            RAdd(RAdd(call.mean[i], Bc(result.inter, i)), result.intra[i]) = call.obs[i]

\* Two records, normalisation off, and an inter-event residual that is not 0.
C10_Witness ==
    /\ call.op = "_get_random_effects_residuals" /\ Applied /\ ~call.normalise
    /\ Len(call.obs) = 2
    /\ result.inter[1] # RInt(0)
    /\ result.intra[1] # result.intra[2]

\* C11: _get_random_effects_residuals returns one inter-event value for the
\* context: with one inter-event standard deviation for all its records, the
\* inter-event residual is the same for all records, also when the
\* within-event standard deviation differs between them.
C11_SingleEtaPerContext ==
    (/\ call.op = "_get_random_effects_residuals" /\ Applied
     /\ \A i \in 1..Len(call.inter) : call.inter[i] = call.inter[1]) =>
        \A i \in 1..Len(result.inter) : result.inter[i] = result.inter[1]

\* The bootstrap call of the state, run again with the generator in state seed.
Rerun(seed) ==
    bootstrap_multivariate_llhvalues(Self, call.number_bootstraps, call.sum_imts,
                                     call.parallelize, seed)

Decomposed(k, g, imtx) ==
    /\ ~Falsy(ssa.site_residuals[k].resid.residuals[g][imtx])
    /\ "Intra event" \in DOMAIN ssa.site_residuals[k].resid.residuals[g][imtx]

SiteIntra(k, g, imtx) ==
    ssa.site_residuals[k].resid.residuals[g][imtx]["Intra event"].data

SiteRecords(k) == NumRecords(ssa.site_residuals[k].resid.contexts.list)

\* The squared deviations of a sequence of values from a value.
SqDevs(vals, from) ==
    [i \in 1..Len(vals) |-> RMul(RSub(vals[i], from), RSub(vals[i], from))]

\* C13: after residual_statistics, for every stored analysis and every
\* (model, IMT) with a within-event decomposition, dS2ss is the arithmetic
\* mean of the site's intra-event residuals, dWo,es is these residuals minus
\* dS2ss, and phi_ss,s is the square root of the sum of the squared
\* deviations over n_site - 1, n_site being the number of records of the
\* site (with one record the quotient is 0 / 0, not a number).
C13_SiteStatistics ==
    (~IsNone(ssa) /\ call.op = "residual_statistics"
     /\ err # "ZeroDivisionError") =>
        \A k \in 1..Len(ssa.site_residuals), g \in KeySet(ssa.gmpe_list),
           imtx \in Range(ssa.imts) :
            Decomposed(k, g, imtx) =>
                LET an == ssa.site_residuals[k].site_analysis[g][imtx]
                    intra == SiteIntra(k, g, imtx)
                    n_site == SiteRecords(k)
                    mean == RDiv(RSum(intra), RInt(n_site))
                IN  /\ n_site = Len(intra)
                    /\ an["dS2ss"] = mean
                    /\ an["dWo,es"].data = [i \in 1..n_site |-> RSub(intra[i], mean)]
                    /\ an["phi_ss,s"].sqrt =
                           IF n_site > 1
                           THEN RDiv(RSum(SqDevs(intra, mean)), RInt(n_site - 1))
                           ELSE NaN

\* Two sites analysed, one of them with two records whose intra-event
\* residuals differ and do not average to zero.
C13_Witness ==
    /\ ~IsNone(ssa) /\ call.op = "residual_statistics" /\ err = "none"
    /\ Len(ssa.site_residuals) = 2
    /\ \E k \in 1..2, g \in KeySet(ssa.gmpe_list), imtx \in Range(ssa.imts) :
          /\ Decomposed(k, g, imtx)
          /\ SiteRecords(k) = 2
          /\ ssa.site_residuals[k].site_analysis[g][imtx]["dS2ss"] # RInt(0)
          /\ RLess(RInt(0), ssa.site_residuals[k].site_analysis[g][imtx]["phi_ss,s"].sqrt)

\* Whether the statistics of the first stored analysis have the within-event
\* residuals of a (model, IMT): the test of get_total_phi_ss.
HasSiteStatistics(g, imtx) ==
    "Intra event" \in DOMAIN ssa.site_residuals[1].site_analysis[g][imtx]

C15_OneAnalysisPerSite ==
    (~IsNone(ssa) /\ call.op = "get_site_residuals" /\ err = "none") =>
        /\ Len(ssa.site_residuals) = Len(ssa.site_ids)
        /\ \A k \in 1..Len(ssa.site_ids) :
              ssa.site_residuals[k].resid =
                  get_residuals(Residuals__init__(ssa.input_gmpe_list, ssa.imts),
                                select_from_site_id(call.database, ssa.site_ids[k]),
                                FALSE).self

\* Whether the store of (g, imtx) is applicable and holds the inter-event
\* residuals.
DecomposableStore(g, imtx) ==
    ~Falsy(residuals[g][imtx]) /\ "Inter event" \in DOMAIN residuals[g][imtx]

\* The inter-event residuals of the k-th retained context, and whether they
\* are one value.
InterEventOf(k, g, imtx) == contexts.list[k].Residual[g][imtx]["Inter event"]

ConstantVector(v) == \A i \in 1..Len(v), j \in 1..Len(v) : v[i] = v[j]

\* What one context adds to the inter-event store of (g, imtx), and the
\* index array recorded for it.
InterEventAdded(inter_ev) ==
    IF ConstantVector(inter_ev) THEN <<inter_ev[1]>> ELSE inter_ev

IndicesAdded(inter_ev) ==
    IF ConstantVector(inter_ev) THEN <<0>>
    ELSE [i \in 1..Len(inter_ev) |-> i - 1]

\* C16: a get_residuals that completes adds, for each decomposable applicable
\* (model, IMT) and each context it processed, one entry to unique_indices:
\* [0] when the inter-event residuals of the context are one value, and then
\* that one value is appended to the store; else the range 0..n-1, and all n
\* values are appended.
C16_UniqueIndicesPerContext ==
    [][(Built /\ GetResidualsDone') =>
        \A g \in KeySet(gmpe_list), imtx \in Range(imts) :
            DecomposableStore(g, imtx) =>
                /\ unique_indices'[g][imtx] =
                      unique_indices[g][imtx] \o
                          [k \in 1..Len(contexts'.list) |->
                              IndicesAdded(InterEventOf(k, g, imtx)')]
                /\ residuals'[g][imtx]["Inter event"].data =
                      residuals[g][imtx]["Inter event"].data \o
                          Flatten([k \in 1..Len(contexts'.list) |->
                              InterEventAdded(InterEventOf(k, g, imtx)')])]_vars

\* Two contexts processed; a store that took one value for a context of two
\* records, and a store that took the two values of that context.
C16_Witness ==
    /\ GetResidualsDone /\ Len(contexts.list) = 2
    /\ \E g \in KeySet(gmpe_list), h \in KeySet(gmpe_list), imtx \in Range(imts),
          k \in 1..2 :
          /\ DecomposableStore(g, imtx) /\ DecomposableStore(h, imtx)
          /\ contexts.list[k].NumSites = 2
          /\ unique_indices[g][imtx][k] = <<0>>
          /\ unique_indices[h][imtx][k] = <<0, 1>>

\* Whether a structure of a context has an entry for every model and every
\* requested IMT.
EntryForEveryPair(structure) ==
    /\ DOMAIN structure = KeySet(gmpe_list)
    /\ \A g \in KeySet(gmpe_list) : DOMAIN structure[g] = Range(imts)

\* C17: after get_residuals completes, self.contexts holds every context the
\* provider yielded, once each and in the provider's order, and each carries
\* an Expected and a Residual structure with an entry for every (model,
\* requested IMT).
C17_ContextsRetainedInOrder ==
    GetResidualsDone =>
        /\ Len(contexts.list) = Len(call.database)
        /\ \A k \in 1..Len(contexts.list) :
              /\ contexts.list[k].EventID = call.database[k].EventID
              /\ contexts.list[k].NumSites = call.database[k].NumSites
              /\ contexts.list[k].Ctx.sids = call.database[k].Ctx.sids
              /\ contexts.list[k].Ctx.vs30 = call.database[k].Ctx.vs30
              /\ {"Expected", "Residual"} \subseteq DOMAIN contexts.list[k]
              /\ EntryForEveryPair(contexts.list[k].Expected)
              /\ EntryForEveryPair(contexts.list[k].Residual)

\* Two different events retained for two models, with a pair outside the
\* period range of a model.
C17_Witness ==
    /\ GetResidualsDone /\ Len(contexts.list) = 2 /\ Len(gmpe_list) = 2
    /\ contexts.list[1].EventID # contexts.list[2].EventID
    /\ \E g \in KeySet(gmpe_list), imtx \in Range(imts) :
          IsNone(contexts.list[2].Residual[g][imtx])

\* The statistics operations.
StatisticsOps ==
    {"get_residual_statistics", "get_likelihood_values",
     "get_loglikelihood_values", "get_multivariate_loglikelihood_values",
     "bootstrap_multivariate_llhvalues", "get_distinctiveness",
     "get_edr_values"}

\* C18: no statistics operation, whether it returns or raises, modifies the
\* residual store, the modelled store, unique_indices or the retained
\* contexts.
C18_StatisticsLeaveStores ==
    [][call'.op \in StatisticsOps =>
          /\ residuals' = residuals
          /\ modelled' = modelled
          /\ unique_indices' = unique_indices
          /\ contexts' = contexts]_vars

\* A distinctiveness computed from the cube of a bootstrap, on an object that
\* retains two contexts and has a residual stored.
C18_Witness ==
    /\ call.op = "get_distinctiveness" /\ err = "none"
    /\ Len(contexts.list) = 2
    /\ \E g \in KeySet(gmpe_list), imtx \in Range(imts) :
          /\ ~Falsy(residuals[g][imtx])
          /\ Len(residuals[g][imtx]["Total"].data) > 0
          /\ Len(unique_indices[g][imtx]) > 0

\* The output cube of the bootstrap call of the state before its j-th
\* iteration (counted from 1) and after it; the first iteration finds zeros.
CubeBefore(j) ==
    IF j = 1
    THEN [a \in 1..Len(gmpe_list) |-> [b \in 1..Len(imts) |->
             [jj \in 1..call.number_bootstraps |-> RInt(0)]]]
    ELSE call.cubes[j - 1]

CubeAfter(j) == call.cubes[j]

\* C19: a bootstrap leaves the context list and every context in it as they
\* were, and its j-th iteration changes no slice of the output cube other
\* than slice j.
C19_IterationWritesOwnSlice ==
    [][call'.op = "bootstrap_multivariate_llhvalues" =>
          /\ contexts' = contexts
          /\ \A j \in 1..Len(call'.cubes) :
                \A a \in 1..Len(gmpe_list), b \in 1..Len(imts),
                   jj \in 1..call'.number_bootstraps :
                    jj # j => CubeAfter(j)'[a][b][jj] = CubeBefore(j)'[a][b][jj]]_vars

\* A bootstrap of two iterations on two contexts: the second iteration wrote
\* slice 2 and left the slice the first had written.
C19_Witness ==
    /\ call.op = "bootstrap_multivariate_llhvalues" /\ err = "none"
    /\ Len(call.cubes) = 2 /\ Len(contexts.list) = 2
    /\ CubeAfter(1)[1][1][1] # RInt(0)
    /\ CubeAfter(2)[1][1][1] = CubeAfter(1)[1][1][1]
    /\ CubeAfter(2)[1][1][2] # CubeAfter(1)[1][1][2]

\* The contexts an iteration resampled, from the indices it drew.
ResampledContexts(isamp) == [k \in 1..Len(isamp) |-> contexts.list[isamp[k] + 1]]

\* Whether the iterations run drew, each, as many indices as there are
\* contexts, every index in the range of the context list.
WholeResamples ==
    \A j \in 1..Len(call.iterations) :
        /\ Len(call.iterations[j].isamp) = Len(contexts.list)
        /\ \A k \in 1..Len(call.iterations[j].isamp) :
               call.iterations[j].isamp[k] \in 0..(Len(contexts.list) - 1)

\* Whether the cube returned has one cell per (model, IMT, iteration), each
\* the multivariate LLH of the model and IMT on the resample of the iteration.
CubeOfResampleLLH ==
    /\ Len(result.outputs) = Len(gmpe_list)
    /\ \A a \in 1..Len(gmpe_list) :
          /\ Len(result.outputs[a]) = Len(imts)
          /\ \A b \in 1..Len(imts) :
                /\ Len(result.outputs[a][b]) = call.number_bootstraps
                /\ \A j \in 1..call.number_bootstraps :
                      result.outputs[a][b][j] =
                          get_multivariate_ll(Self,
                              ResampledContexts(call.iterations[j].isamp),
                              gmpe_list[a].name, imts[b]).value

\* C20: a bootstrap of at least one iteration (not parallelized, on a
\* database that yields a context) draws in every iteration as many context indices as there are contexts,
\* each in the range of the list, evaluates the multivariate LLH of every
\* (model, IMT) on the resampled list, and returns a cube of shape
\* (models, IMTs, iterations).
C20_IterationResamplesContexts ==
    (/\ call.op = "bootstrap_multivariate_llhvalues" /\ ~call.parallelize
     /\ call.number_bootstraps >= 1 /\ Len(contexts.list) > 0)
        => /\ WholeResamples
           /\ err = "none"
           /\ CubeOfResampleLLH

\* Whether _build_matrices returned its matrices for the list drawn.
MatricesBuilt == call.op = "_build_matrices" /\ err = "none" /\ ~IsNone(result)

\* The position in the list drawn of the context the record r belongs to.
RECURSIVE PositionOf(_, _)
PositionOf(r, j) ==
    IF r <= call.contexts[j].NumSites THEN [ctx |-> j, rec |-> r]
    ELSE PositionOf(r - call.contexts[j].NumSites, j + 1)

\* The inter-event standard deviation of the record r: that of its event (a
\* single value, or one value per record), 0 for a model that has only
\* the total sigma.
TauOf(r) ==
    LET at == PositionOf(r, 1)
        expected == call.contexts[at.ctx].Expected[call.gmpe][call.imtx]
    IN  IF ~("Inter event" \in DOMAIN expected) THEN RInt(0)
        ELSE IF Len(expected["Inter event"]) = 1 THEN expected["Inter event"][1]
        ELSE expected["Inter event"][at.rec]

\* C21: Z[r, j] is the inter-event standard deviation of event j when the
\* record r belongs to the j-th context of the list and 0 otherwise; V[r, s]
\* is 0 for two records of different list positions (also of two occurrences
\* of one context) and tau_r * tau_s for two distinct records of one
\* position.
C21_ZColumnsPerListPosition ==
    MatricesBuilt =>
        /\ Len(result.z_g_mat) = result.nrecs
        /\ \A r \in 1..result.nrecs :
              /\ Len(result.z_g_mat[r]) = Len(call.contexts)
              /\ \A j \in 1..Len(call.contexts) :
                    result.z_g_mat[r][j] =
                        IF PositionOf(r, 1).ctx = j THEN TauOf(r) ELSE RInt(0)
              /\ \A q \in 1..result.nrecs :
                    r # q => result.v_mat[r][q] =
                                 IF PositionOf(r, 1).ctx = PositionOf(q, 1).ctx
                                 THEN RMul(TauOf(r), TauOf(q)) ELSE RInt(0)

\* A list in which one context of two records, with an inter-event sigma per
\* record, appears twice: the matrices are built, the two records of an
\* occurrence are correlated and the occurrences are not.
C21_Witness ==
    /\ MatricesBuilt
    /\ Len(call.contexts) = 2 /\ call.contexts[1] = call.contexts[2]
    /\ call.contexts[1].NumSites = 2
    /\ result.z_g_mat[1][1] # result.z_g_mat[2][1]
    /\ result.v_mat[1][2] = RInt(2)
    /\ result.v_mat[1][3] = RInt(0)

\* The sum of the values row[x] over the elements x of S.
RECURSIVE SetSum(_, _)
SetSum(S, row) ==
    IF S = {} THEN RInt(0)
    ELSE LET x == CHOOSE y \in S : TRUE
         IN  RAdd(row[x], SetSum(S \ {x}, row))

\* The IMTs of the call that count for the model g: applicable to it, with
\* a multivariate LLH that is a number.
CountedImts(g) ==
    {imtx \in Range(call.imts) :
        ~IsNone(call.residuals[g][imtx]) /\ ~IsNaN(call.llh[g][imtx])}

\* Whether the summed multivariate LLH was asked of the stores drawn.
SummedLLHDone ==
    /\ call.op = "get_multivariate_loglikelihood_values" /\ call.sum_imts
    /\ ~IsNone(result)

\* C22: with sum_imts, get_multivariate_loglikelihood_values returns without
\* raising, for each model, the sum of its per-IMT multivariate LLH over the
\* IMTs that apply to the model and whose value is a number.
C22_SumSkipsNaN ==
    /\ (call.op = "get_multivariate_loglikelihood_values" => err = "none")
    /\ SummedLLHDone =>
          /\ DOMAIN result = Range(call.gmpes)
          /\ \A g \in Range(call.gmpes) :
                result[g].total = SetSum(CountedImts(g), call.llh[g])

\* Two models and two IMTs: for the first model one value is not-a-number
\* and the other is the total; for the second an IMT is inapplicable.
C22_Witness ==
    /\ SummedLLHDone
    /\ Len(call.gmpes) = 2 /\ Len(call.imts) = 2
    /\ \E imtx \in Range(call.imts) :
          /\ IsNaN(call.llh["Full"][imtx])
          /\ ~IsNone(call.residuals["Full"][imtx])
    /\ result["Full"].total = RInt(2)
    /\ \E imtx \in Range(call.imts) :
          /\ IsNone(call.residuals["Hetero"][imtx])
          /\ ~IsNaN(call.llh["Hetero"][imtx])
    /\ result["Hetero"].total = RInt(1)

\* The rake a model is to be handed for a context of the database: 0 when the
\* context has none, its own otherwise.
RakeExpected(context) ==
    IF IsNone(context.Ctx.rake) THEN Some(0) ELSE context.Ctx.rake

\* C23: every model invocation get_residuals makes for a context (the first
\* included) is handed rake 0 when the context came without a rake and the
\* context's own rake otherwise, and the contexts kept hold that rake.
C23_RakeDefaultBeforeInvocation ==
    (Built /\ call.op = "get_residuals") =>
        /\ \A n \in 1..Len(invoked) :
              \E k \in 1..Len(call.database) :
                  /\ call.database[k].EventID = invoked[n].EventID
                  /\ invoked[n].rake = RakeExpected(call.database[k])
        /\ GetResidualsDone =>
              \A k \in 1..Len(contexts.list) :
                  contexts.list[k].Ctx.rake = RakeExpected(call.database[k])

\* A database with a context without rake and one with rake 90: models were
\* invoked for both, with 0 and with 90.
C23_Witness ==
    /\ GetResidualsDone
    /\ \E k \in 1..Len(call.database) : IsNone(call.database[k].Ctx.rake)
    /\ \E n \in 1..Len(invoked) : invoked[n].EventID = 1 /\ invoked[n].rake = Some(0)
    /\ \E n \in 1..Len(invoked) : invoked[n].EventID = 2 /\ invoked[n].rake = Some(90)

\* Whether the pooled arrays of a model's report hold, at the place of the
\* record i of the context k for the IMT b (IMTs first, then contexts, then
\* records), the log-observation, mean and total sigma of that record.
PooledTriples(g, pooled) ==
    LET ctxs == contexts.list
        n == NumRecords(ctxs)
        place(b, k, i) == (b - 1) * n + NumRecords(SubSeq(ctxs, 1, k - 1)) + i
    IN  /\ Len(pooled.obs) = Len(imts) * n
        /\ Len(pooled.expected) = Len(imts) * n
        /\ Len(pooled.stddev) = Len(imts) * n
        /\ \A b \in 1..Len(imts), k \in 1..Len(ctxs) :
              \A i \in 1..ctxs[k].NumSites :
                  /\ pooled.obs[place(b, k, i)] =
                         LogObs(ctxs[k].Observations[imts[b]])[i]
                  /\ pooled.expected[place(b, k, i)] =
                         ctxs[k].Expected[g][imts[b]]["Mean"][i]
                  /\ pooled.stddev[place(b, k, i)] =
                         ctxs[k].Expected[g][imts[b]]["Total"][i]

\* C24: get_edr_values (on a database that yields a context) returns for
\* each model a report with exactly the keys 'MDE Norm', 'sqrt Kappa' and
\* 'EDR', computed from three pooled arrays of one length that hold one
\* (log-observation, mean, total sigma) triple per record, context and IMT
\* of the analysis, entry by entry of the same record.
C24_EdrPoolsTriples ==
    (Built /\ call.op = "get_edr_values" /\ Len(contexts.list) > 0) =>
        /\ err = "none"
        /\ DOMAIN result = KeySet(gmpe_list)
        /\ \A g \in KeySet(gmpe_list) :
              /\ DOMAIN result[g] = {"MDE Norm", "sqrt Kappa", "EDR"}
              /\ \A key \in DOMAIN result[g] : PooledTriples(g, result[g][key])

\* C25: MultivariateLLH.get_likelihood_values(sum_imts) returns what
\* get_multivariate_loglikelihood_values(sum_imts) returns on the same
\* object.
C25_DeprecatedForwards ==
    call.op = "MultivariateLLH.get_likelihood_values" =>
        /\ err = get_multivariate_loglikelihood_values(Self, call.sum_imts).err
        /\ result = get_multivariate_loglikelihood_values(Self, call.sum_imts).value

\* C26: after any get_residuals call, completed or raising, the store of
\* every applicable (model, IMT) holds as many Total residuals as the
\* contexts kept in self.contexts have records.
C26_StoreMatchesContexts ==
    (Built /\ call.op = "get_residuals") =>
        \A g \in KeySet(gmpe_list), imtx \in Range(imts) :
            ~IsNone(residuals[g][imtx]) =>
                Len(residuals[g][imtx]["Total"].data) = NumRecords(contexts.list)

\* The per-IMT distinctiveness of the cube of the call: what
\* get_distinctiveness returns for it without sum_imts.
PerImtDistinctiveness ==
    get_distinctiveness(call.ngmpes, call.nimts, call.outputs,
                        call.number_bootstraps, FALSE).value.data

\* The arithmetic mean of a sequence of numbers.
MeanOf(values) == RDiv(RSum(values), RInt(Len(values)))

\* C27: with sum_imts and at least one draw, the distinctiveness of (i, j)
\* is the arithmetic mean over the IMTs of the per-IMT distinctiveness of
\* (i, j, k) of the same cube.
C27_SummedIsMeanOverImts ==
    (/\ call.op = "get_distinctiveness" /\ Applied /\ call.sum_imts
     /\ call.number_bootstraps >= 1) =>
        /\ err = "none"
        /\ \A i \in 1..call.ngmpes, j \in 1..call.ngmpes :
              result.data[i][j] =
                  MeanOf([k \in 1..call.nimts |-> PerImtDistinctiveness[i][j][k]])

\* Two IMTs in which the first model is below the second in every draw of
\* one and in no draw of the other: the summed distinctiveness is a half.
C27_Witness ==
    /\ call.op = "get_distinctiveness" /\ Applied /\ err = "none"
    /\ call.sum_imts /\ call.ngmpes = 2 /\ call.nimts = 2
    /\ call.number_bootstraps = 2
    /\ PerImtDistinctiveness[1][2][1] = RInt(1)
    /\ PerImtDistinctiveness[1][2][2] = RInt(0)
    /\ result.data[1][2] = Rat(1, 2)

====
